---- MODULE Spec2Model ----
(***************************************************************************)
(* Model of the SmartIoT temperature forecasting engine                    *)
(* (api-server/src/predictions.js, kept here as src/unnamed/part_001), of  *)
(* the API server that calls it and of the dashboard's alert list.         *)
(*                                                                         *)
(* JavaScript numbers are modelled as what they are, IEEE 754 doubles:     *)
(* every addition, subtraction, multiplication and division of the code    *)
(* is one operation of the model, rounded as the code's is, and NaN and    *)
(* the infinities go through the arithmetic as they do in the code.        *)
(***************************************************************************)
EXTENDS Integers, Sequences, FiniteSets, Bags, TLC

(***************************************************************************)
(* JavaScript numbers: IEEE 754 binary64, every operation rounded to the   *)
(* nearest double, ties to the even mantissa.                              *)
(* A natural number is a non-empty sequence of limbs in 0..Radix-1, least  *)
(* significant first, without a zero limb at its high end (zero is <<0>>). *)
(* A double is [k, s, m, e]: k is "fin", "inf" or "nan"; a finite double   *)
(* is s * m * 2^e with s in {1, -1} and m a natural of exactly 53 bits, or *)
(* m = <<0>>, e = 0, s = 1 for zero (the sign of zero is not kept).  An    *)
(* infinity keeps its sign in s.  Equal numbers are equal records.         *)
(* Overflow to infinity and subnormal numbers are out of the range of the  *)
(* temperatures and are not modelled.                                      *)
(***************************************************************************)
LimbBits == 14
Radix == 2 ^ LimbBits
MantissaBits == 53

RECURSIVE NCarry(_, _, _)
NCarry(a, k, c) ==
    IF k > Len(a)
    THEN IF c = 0 THEN << >> ELSE << c % Radix >> \o NCarry(a, k, c \div Radix)
    ELSE << (a[k] + c) % Radix >> \o NCarry(a, k + 1, (a[k] + c) \div Radix)

\* a without the zero limbs at its high end; << 0 >> for no limb at all.
RECURSIVE NTrim(_)
NTrim(a) ==
    IF Len(a) = 0 THEN << 0 >>
    ELSE IF Len(a) > 1 /\ a[Len(a)] = 0 THEN NTrim(SubSeq(a, 1, Len(a) - 1))
    ELSE a

NLimb(a, k) == IF k >= 1 /\ k <= Len(a) THEN a[k] ELSE 0

\* The sums of the limbs, then the carries.
NAdd(a, b) ==
    NTrim(NCarry([k \in 1..(IF Len(a) > Len(b) THEN Len(a) ELSE Len(b)) |->
                     NLimb(a, k) + NLimb(b, k)], 1, 0))

\* a - b, for a >= b.
NSub(a, b) == NTrim(NCarry([k \in 1..Len(a) |-> a[k] - NLimb(b, k)], 1, 0))

\* a * m, for an integer m in 0..2^16.
NScale(a, m) == NTrim(NCarry([k \in 1..Len(a) |-> a[k] * m], 1, 0))

\* a * Radix^j
NShiftLimbs(a, j) == NTrim([k \in 1..j |-> 0] \o a)

\* a * b, for naturals of at most 4 limbs: limb k of the product before
\* the carries is the sum of the a[i] * b[j] with i + j = k + 1.
NMul(a, b) ==
    NTrim(NCarry([k \in 1..(Len(a) + Len(b) - 1) |->
                     NLimb(a, 1) * NLimb(b, k) + NLimb(a, 2) * NLimb(b, k - 1)
                         + NLimb(a, 3) * NLimb(b, k - 2)
                         + NLimb(a, 4) * NLimb(b, k - 3)], 1, 0))

\* -1, 0 or 1 as a is below, equal to or above b (from limb k down).
RECURSIVE NCmpFrom(_, _, _)
NCmpFrom(a, b, k) ==
    IF k = 0 THEN 0
    ELSE IF a[k] < b[k] THEN -1
    ELSE IF a[k] > b[k] THEN 1
    ELSE NCmpFrom(a, b, k - 1)

NCmp(a, b) ==
    IF Len(a) < Len(b) THEN -1
    ELSE IF Len(a) > Len(b) THEN 1
    ELSE NCmpFrom(a, b, Len(a))

\* Quotient and remainder of a by an integer d in 1..2^17, from limb k down
\* with the remainder r so far.
RECURSIVE NDivFrom(_, _, _, _)
NDivFrom(a, d, k, r) ==
    IF k = 0
    THEN [q |-> << >>, r |-> r]
    ELSE [NDivFrom(a, d, k - 1, (r * Radix + a[k]) % d)
             EXCEPT !.q = @ \o << (r * Radix + a[k]) \div d >>]

NDivSmall(a, d) == [NDivFrom(a, d, Len(a), 0) EXCEPT !.q = NTrim(@)]

RECURSIVE BitLength(_)
BitLength(x) == IF x = 0 THEN 0 ELSE 1 + BitLength(x \div 2)

\* The number of bits of a; 0 for zero.
NBits(a) == LimbBits * (Len(a) - 1) + BitLength(a[Len(a)])

\* a * 2^k
NShl(a, k) == NScale(NShiftLimbs(a, k \div LimbBits), 2 ^ (k % LimbBits))

\* floor(a / 2^k)
NShr(a, k) ==
    IF k \div LimbBits >= Len(a)
    THEN << 0 >>
    ELSE NDivSmall(SubSeq(a, k \div LimbBits + 1, Len(a)), 2 ^ (k % LimbBits)).q

\* Bit i of a, bit 0 being the lowest.
NBit(a, i) == (NLimb(a, i \div LimbBits + 1) \div 2 ^ (i % LimbBits)) % 2

\* The k lowest bits of a are zero.
NLowBitsZero(a, k) ==
    /\ \A j \in 1..(k \div LimbBits) : NLimb(a, j) = 0
    /\ NLimb(a, k \div LimbBits + 1) % 2 ^ (k % LimbBits) = 0

\* A natural below 2^31 as an integer.
RECURSIVE NToInt(_)
NToInt(a) == IF Len(a) = 1 THEN a[1] ELSE a[1] + Radix * NToInt(Tail(a))

Zero == [k |-> "fin", s |-> 1, m |-> << 0 >>, e |-> 0]
NotANumber == [k |-> "nan", s |-> 1, m |-> << 0 >>, e |-> 0]
Inf(s) == [k |-> "inf", s |-> s, m |-> << 0 >>, e |-> 0]

IsZero(x) == x.k = "fin" /\ x.m = << 0 >>

\* The finite double s * m * 2^e for a mantissa m of 53 bits, or of 54 bits
\* with the lowest bit 0 (a rounding that carried).
FPack(s, m, e) ==
    IF NBits(m) > MantissaBits
    THEN [k |-> "fin", s |-> s, m |-> NShr(m, 1), e |-> e + 1]
    ELSE [k |-> "fin", s |-> s, m |-> m, e |-> e]

\* The mantissa kept goes up by one when the bits dropped are more than
\* half of its last place, or exactly half and kept is odd.
RoundsUp(mag, drop, sticky, kept) ==
    /\ NBit(mag, drop - 1) = 1
    /\ (sticky \/ ~NLowBitsZero(mag, drop - 1) \/ kept[1] % 2 = 1)

\* The rounding of a magnitude of more than 53 bits: its drop lowest bits
\* are dropped, kept is what stays.
FRoundKept(s, mag, e, sticky, drop, kept) ==
    FPack(s, IF RoundsUp(mag, drop, sticky, kept) THEN NAdd(kept, << 1 >>) ELSE kept,
          e + drop)

\* The double nearest to s * mag * 2^e, or to a value just above
\* mag * 2^e in magnitude when sticky is set (mag then has more than 54
\* bits): round to nearest, ties to even.
FRound(s, mag, e, sticky) ==
    IF mag = << 0 >> THEN Zero
    ELSE IF NBits(mag) <= MantissaBits
    THEN [k |-> "fin", s |-> s, m |-> NShl(mag, MantissaBits - NBits(mag)),
          e |-> e - (MantissaBits - NBits(mag))]
    ELSE FRoundKept(s, mag, e, sticky, NBits(mag) - MantissaBits,
                    NShr(mag, NBits(mag) - MantissaBits))

\* The integer n as a double.
FromInt(n) ==
    FRound(IF n < 0 THEN -1 ELSE 1,
           NTrim(NCarry(<< IF n < 0 THEN -n ELSE n >>, 1, 0)), 0, FALSE)

FNeg(x) == IF x.k = "nan" \/ IsZero(x) THEN x ELSE [x EXCEPT !.s = -x.s]

\* xs * a * 2^e + ys * b * 2^e, rounded, for naturals a and b above 0.
FAddAligned(xs, a, ys, b, e) ==
    IF xs = ys THEN FRound(xs, NAdd(a, b), e, FALSE)
    ELSE IF NCmp(a, b) = 0 THEN Zero
    ELSE IF NCmp(a, b) > 0 THEN FRound(xs, NSub(a, b), e, FALSE)
    ELSE FRound(ys, NSub(b, a), e, FALSE)

\* x + y
FAdd(x, y) ==
    IF x.k = "nan" \/ y.k = "nan" THEN NotANumber
    ELSE IF x.k = "inf"
         THEN IF y.k = "inf" /\ y.s # x.s THEN NotANumber ELSE x
    ELSE IF y.k = "inf" THEN y
    ELSE IF IsZero(x) THEN y
    ELSE IF IsZero(y) THEN x
    ELSE FAddAligned(x.s, NShl(x.m, x.e - (IF x.e < y.e THEN x.e ELSE y.e)),
                     y.s, NShl(y.m, y.e - (IF x.e < y.e THEN x.e ELSE y.e)),
                     IF x.e < y.e THEN x.e ELSE y.e)

\* x - y
FSub(x, y) == FAdd(x, FNeg(y))

\* x * y
FMul(x, y) ==
    IF x.k = "nan" \/ y.k = "nan" THEN NotANumber
    ELSE IF x.k = "inf" \/ y.k = "inf"
         THEN IF IsZero(x) \/ IsZero(y) THEN NotANumber ELSE Inf(x.s * y.s)
    ELSE IF IsZero(x) \/ IsZero(y) THEN Zero
    ELSE FRound(x.s * y.s, NMul(x.m, y.m), x.e + y.e, FALSE)

\* x / d, for an integer d in 1..2^17: the quotient of the mantissa, 28 bits
\* longer, is rounded; a remainder makes it sticky.
FDivInt(x, d) ==
    IF x.k # "fin" \/ IsZero(x) THEN x
    ELSE FRound(x.s, NDivSmall(NShl(x.m, 2 * LimbBits), d).q, x.e - 2 * LimbBits,
                NDivSmall(NShl(x.m, 2 * LimbBits), d).r # 0)

\* The double a decimal literal p/q stands for (0.3 is Dec(3, 10)).
Dec(p, q) == FDivInt(FromInt(p), q)

\* -1, 0 or 1 as x is negative, zero or positive; 0 for NaN.
FSign(x) == IF x.k = "nan" \/ IsZero(x) THEN 0 ELSE x.s

\* x < y
FLess(x, y) ==
    /\ x.k # "nan" /\ y.k # "nan" /\ x # y
    /\ FSign(FSub(x, y)) < 0

\* Math.abs(x)
FAbs(x) == IF x.k = "nan" THEN x ELSE [x EXCEPT !.s = 1]

\* Math.max(x, y)
FMax(x, y) ==
    IF x.k = "nan" \/ y.k = "nan" THEN NotANumber ELSE IF FLess(x, y) THEN y ELSE x

\* Math.min(x, y)
FMin(x, y) ==
    IF x.k = "nan" \/ y.k = "nan" THEN NotANumber ELSE IF FLess(y, x) THEN y ELSE x

\* The integer nearest to s * twice / 2^bits, a half rounded towards
\* +Infinity; half is 2^(bits - 1).
RoundHalves(s, twice, half, bits) ==
    IF s = 1 THEN NToInt(NShr(NAdd(twice, half), bits))
    ELSE IF NCmp(twice, half) <= 0 THEN 0
    ELSE -NToInt(NShr(NAdd(NSub(twice, half), NSub(NShl(half, 1), << 1 >>)), bits))

\* Math.round(x) for a finite x, as an integer: the nearest integer, a half
\* rounded towards +Infinity.
RoundToInt(x) ==
    IF IsZero(x) THEN 0
    ELSE IF x.e >= 0 THEN x.s * NToInt(NShl(x.m, x.e))
    ELSE RoundHalves(x.s, NShl(x.m, 1), NShl(<< 1 >>, -x.e), 1 - x.e)

\* Math.round(x)
MathRound(x) == IF x.k = "fin" THEN FromInt(RoundToInt(x)) ELSE x

(***************************************************************************)
(* JavaScript values as they cross the interface of the engine.  A finite  *)
(* number is written as the decimal a caller reads or writes, in           *)
(* hundredths: Num(2050) is the number 20.5.  A number that is not a whole *)
(* number of hundredths has the rest in rem, in thousandths of a hundredth *)
(* (0..999): Fine(2212, 300) is 22.123.  The number meant is the double    *)
(* nearest to the decimal (Real).  NaN, Infinity, -Infinity, null and      *)
(* undefined are the other values a temperature or predicted_temp can      *)
(* hold.                                                                   *)
(***************************************************************************)
Num(c) == [type |-> "number", v |-> c, rem |-> 0]
Fine(c, r) == [type |-> "number", v |-> c, rem |-> r]
NaN == [type |-> "NaN", v |-> 0, rem |-> 0]
Infinity == [type |-> "Infinity", v |-> 0, rem |-> 0]
NegInfinity == [type |-> "-Infinity", v |-> 0, rem |-> 0]
Null == [type |-> "null", v |-> 0, rem |-> 0]
Undefined == [type |-> "undefined", v |-> 0, rem |-> 0]

\* ToNumber: null converts to 0, undefined to NaN.
ToNumber(x) ==
    CASE x.type = "null" -> Num(0)
      [] x.type = "undefined" -> NaN
      [] OTHER -> x

\* The double a JavaScript value is in arithmetic: the double nearest to
\* the decimal of a finite number; Infinity and NaN stay what they are.
Real(x) ==
    CASE ToNumber(x).type = "NaN" -> NotANumber
      [] ToNumber(x).type = "Infinity" -> Inf(1)
      [] ToNumber(x).type = "-Infinity" -> Inf(-1)
      [] OTHER -> IF x.rem = 0
                  THEN Dec(x.v, 100)
                  ELSE Dec(x.v * 1000 + x.rem, 100000)

\* Mutant of Truthy: every value passes.
Truthy_Any(x) ==
    x.type \in { "number", "NaN", "Infinity", "-Infinity", "null", "undefined" }

\* !x is false: 0, NaN, null and undefined are falsy.
Truthy(x) ==
    \/ x.type \in { "Infinity", "-Infinity" }
    \/ (x.type = "number" /\ (x.v # 0 \/ x.rem # 0))

\* x > 0
GreaterThanZero(x) ==
    \/ ToNumber(x).type = "Infinity"
    \/ /\ ToNumber(x).type = "number"
       /\ (ToNumber(x).v > 0 \/ (ToNumber(x).v = 0 /\ ToNumber(x).rem > 0))

\* isNaN(x)
IsNaN(x) == ToNumber(x).type = "NaN"

\* TLC hands arguments on unevaluated; comparing a value with itself
\* evaluates it, so that a loop does not pile up pending computations.
Evaluated(x) == x = x

\* Math.round(x * 100) / 100, as a JavaScript value: the quotient is the
\* double nearest to the decimal with that many hundredths.
Round2(x) ==
    CASE x.k = "nan" -> NaN
      [] x.k = "inf" -> IF x.s > 0 THEN Infinity ELSE NegInfinity
      [] OTHER -> Num(RoundToInt(FMul(x, FromInt(100))))

\* Math.max(15.0, Math.min(35.0, x))
MinTemp == 15
MaxTemp == 35
Clamp(x) == FMax(FromInt(MinTemp), FMin(FromInt(MaxTemp), x))

\* array.slice(-k): the last k elements.
SliceLast(s, k) == IF Len(s) <= k THEN s ELSE SubSeq(s, Len(s) - k + 1, Len(s))

\* array.slice(0, k): the first k elements.
SliceFirst(s, k) == IF Len(s) <= k THEN s ELSE SubSeq(s, 1, k)

\* Mutant of Sanitize: the test is t >= 0, so that 0 is kept.
RECURSIVE Sanitize_KeepsZero(_)
Sanitize_KeepsZero(temps) ==
    IF temps = << >> THEN << >>
    ELSE IF (GreaterThanZero(Head(temps)) \/ ToNumber(Head(temps)) = Num(0))
              /\ ~IsNaN(Head(temps))
         THEN << Head(temps) >> \o Sanitize_KeepsZero(Tail(temps))
         ELSE Sanitize_KeepsZero(Tail(temps))

\* temps.filter(t => t > 0 && !isNaN(t))
RECURSIVE Sanitize(_)
Sanitize(temps) ==
    IF temps = << >> THEN << >>
    ELSE IF GreaterThanZero(Head(temps)) /\ ~IsNaN(Head(temps))
         THEN << Head(temps) >> \o Sanitize(Tail(temps))
         ELSE Sanitize(Tail(temps))

\* window.reduce((a, b) => a + b, 0), from the 1-based index i on.
RECURSIVE Sum(_, _, _)
Sum(window, i, acc) ==
    IF Evaluated(acc) /\ i <= Len(window)
    THEN Sum(window, i + 1, FAdd(acc, Real(window[i])))
    ELSE acc

\* tempHistory[tempHistory.length - 1] || 22.0
DefaultTemp == 22
LastOrDefault(tempHistory) ==
    IF Len(tempHistory) > 0 /\ Truthy(tempHistory[Len(tempHistory)])
    THEN Real(tempHistory[Len(tempHistory)])
    ELSE FromInt(DefaultTemp)

(***************************************************************************)
(* predictWithExponentialSmoothing.  tempHistory is a sequence of          *)
(* JavaScript values, horizonSteps a double; the result is a double.       *)
(***************************************************************************)
\* Mutant of MinExpPoints: the short-series test is length < 2.
MinExpPoints_OffByOne == 3 - 1
MinExpPoints == 3
\* Mutant of ExpWindow: the window is wider than 20 readings.
ExpWindow_Wider == 20 + 5
ExpWindow == 20
AlphaTenths == 3
BetaTenths == 2
\* const alpha = 0.3, const beta = 0.2
Alpha == Dec(AlphaTenths, 10)
Beta == Dec(BetaTenths, 10)

\* Mutant of NextTrend: the trend update reads the level after its update
\* (prevLevel is not kept), so the level difference is always 0.
NextTrend_NoPrevLevel(level, prevLevel, trend) ==
    FAdd(FMul(Beta, FSub(level, level)), FMul(FSub(FromInt(1), Beta), trend))

\* level = alpha * window[i] + (1 - alpha) * (level + trend)
NextLevel(value, level, trend) ==
    FAdd(FMul(Alpha, value), FMul(FSub(FromInt(1), Alpha), FAdd(level, trend)))

\* trend = beta * (level - prevLevel) + (1 - beta) * trend
NextTrend(level, prevLevel, trend) ==
    FAdd(FMul(Beta, FSub(level, prevLevel)), FMul(FSub(FromInt(1), Beta), trend))

\* The loop, from the 0-based index i on.  HoltStep is one pass of its body
\* after the update of level: prevLevel is the level before the update.
RECURSIVE HoltLoop(_, _, _, _)
HoltStep(window, i, prevLevel, level, trend) ==
    HoltLoop(window, i + 1, level, NextTrend(level, prevLevel, trend))

HoltLoop(window, i, level, trend) ==
    IF Evaluated(level) /\ Evaluated(trend) /\ i < Len(window)
    THEN HoltStep(window, i, level, NextLevel(Real(window[i + 1]), level, trend), trend)
    ELSE [level |-> level, trend |-> trend]

\* Mutant of InitialTrend: the trend starts at 0.
InitialTrend_Zero(window) == Zero

\* let trend = window.length > 1 ? window[1] - window[0] : 0
InitialTrend(window) ==
    IF Len(window) > 1 THEN FSub(Real(window[2]), Real(window[1])) ELSE Zero

\* level and trend after the loop over window.
Smoothed(window) == HoltLoop(window, 1, Real(window[1]), InitialTrend(window))

\* Math.max(15.0, Math.min(35.0, level + (trend * horizonSteps))), for
\* fit = [level, trend].
Extrapolated(fit, horizonSteps) ==
    Clamp(FAdd(fit.level, FMul(fit.trend, horizonSteps)))

predictWithExponentialSmoothing(tempHistory, horizonSteps) ==
    IF Len(tempHistory) < MinExpPoints
    THEN LastOrDefault(tempHistory)
    ELSE Extrapolated(Smoothed(SliceLast(tempHistory, ExpWindow)), horizonSteps)

(***************************************************************************)
(* predictWithMovingAverage                                                *)
(***************************************************************************)
MinAvgPoints == 2
AvgWindow == 15
\* Mutant of TrendWindow: the trend looks back one reading further.
TrendWindow_Wider == 5 + 1
TrendWindow == 5

\* (recent[recent.length - 1] - recent[0]) / (recent.length - 1), or 0
RecentTrend(recent) ==
    IF Len(recent) >= 2
    THEN FDivInt(FSub(Real(recent[Len(recent)]), Real(recent[1])), Len(recent) - 1)
    ELSE Zero

\* avg and trend of window, as [level, trend].
Averaged(window) ==
    [level |-> FDivInt(Sum(window, 1, Zero), Len(window)),
     trend |-> RecentTrend(SliceLast(window, TrendWindow))]

predictWithMovingAverage(tempHistory, horizonSteps) ==
    IF Len(tempHistory) < MinAvgPoints
    THEN LastOrDefault(tempHistory)
    ELSE Extrapolated(Averaged(SliceLast(tempHistory, AvgWindow)), horizonSteps)

(***************************************************************************)
(* predictTemperature and computePredictionsForHistory.                    *)
(* A reading is [temperature, predicted_temp, timestamp]; a missing        *)
(* reading is Null.  horizonMinutes is a JavaScript value, in hundredths   *)
(* of a minute when it is finite.  random is the outcome of                *)
(* Math.random() > 0.5 where the code draws it.                            *)
(***************************************************************************)
\* 60 / 5
StepsPerMinute == 60 \div 5

\* Math.trunc(x), for the mutant of HorizonSteps.
MathTrunc(x) ==
    IF x.k # "fin" \/ x.e >= 0 THEN x
    ELSE FromInt(x.s * NToInt(NShr(x.m, -x.e)))

\* Mutant of HorizonSteps: the product is truncated, not rounded.
HorizonSteps_Truncated(horizonMinutes) ==
    MathTrunc(FMul(Real(horizonMinutes), FromInt(StepsPerMinute)))

\* Math.round(horizonMinutes * stepsPerMinute)
HorizonSteps(horizonMinutes) ==
    MathRound(FMul(Real(horizonMinutes), FromInt(StepsPerMinute)))

\* Mutant of Forecast: a selector that is not 'moving_average' runs
\* exponential smoothing.
Forecast_DefaultsToExponential(method, tempHistory, horizonSteps) ==
    IF method = "moving_average"
    THEN predictWithMovingAverage(tempHistory, horizonSteps)
    ELSE predictWithExponentialSmoothing(tempHistory, horizonSteps)

\* method === 'exponential' ? predictWithExponentialSmoothing : predictWithMovingAverage
Forecast(method, tempHistory, horizonSteps) ==
    IF method = "exponential"
    THEN predictWithExponentialSmoothing(tempHistory, horizonSteps)
    ELSE predictWithMovingAverage(tempHistory, horizonSteps)

\* The literal 0.2 of the minimum difference and of the noise.
MinDiffTenths == 2
MinDiff == Dec(MinDiffTenths, 10)

\* Math.abs(predicted - temperature) < 0.2; false when the difference is NaN.
DiffBelowMin(forecastValue, temperature) ==
    FLess(FAbs(FSub(forecastValue, Real(temperature))), MinDiff)

\* The last difference of the series, 0 for a series of fewer than 2.
LastDelta(tempHistory) ==
    IF Len(tempHistory) >= 2
    THEN FSub(Real(tempHistory[Len(tempHistory)]), Real(tempHistory[Len(tempHistory) - 1]))
    ELSE Zero

\* Mutant of Noise: the direction is drawn whatever the trend is.
Noise_AlwaysDrawn(tempHistory, random) ==
    IF random THEN MinDiff ELSE FNeg(MinDiff)

\* Mutant of Noise: the direction is taken against the trend.
Noise_Reversed(tempHistory, random) ==
    IF FSign(LastDelta(tempHistory)) > 0 THEN FNeg(MinDiff)
    ELSE IF FSign(LastDelta(tempHistory)) < 0 THEN MinDiff
    ELSE IF random THEN MinDiff
    ELSE FNeg(MinDiff)

\* trend > 0 ? 0.2 : trend < 0 ? -0.2 : (Math.random() > 0.5 ? 0.2 : -0.2)
Noise(tempHistory, random) ==
    IF FSign(LastDelta(tempHistory)) > 0 THEN MinDiff
    ELSE IF FSign(LastDelta(tempHistory)) < 0 THEN FNeg(MinDiff)
    ELSE IF random THEN MinDiff
    ELSE FNeg(MinDiff)

\* if (diff < 0.2) { predicted = temperature + noise; clamp }
Nudged(forecastValue, temperature, tempHistory, random) ==
    IF DiffBelowMin(forecastValue, temperature)
    THEN Clamp(FAdd(Real(temperature), Noise(tempHistory, random)))
    ELSE forecastValue

\* The forecast of the selected method for tempHistory, kept apart from
\* temperature and rounded to 2 decimals.
Adjusted(tempHistory, temperature, method, horizonSteps, random) ==
    Round2(Nudged(Forecast(method, tempHistory, horizonSteps), temperature,
                  tempHistory, random))

Temperatures(readings) == [i \in 1..Len(readings) |-> readings[i].temperature]

\* Mutant of predictTemperature: the return for a history without a valid
\* temperature is missing.
predictTemperature_NoEarlyReturn(history, currentData, method, horizonMinutes, random) ==
    IF currentData = Null \/ ~Truthy(currentData.temperature)
    THEN Num(DefaultTemp * 100)
    ELSE Adjusted(Append(Sanitize(Temperatures(history)), currentData.temperature),
                  currentData.temperature, method, HorizonSteps(horizonMinutes),
                  random)

predictTemperature(history, currentData, method, horizonMinutes, random) ==
    IF currentData = Null \/ ~Truthy(currentData.temperature)
    THEN Num(DefaultTemp * 100)
    ELSE IF Len(Sanitize(Temperatures(history))) = 0
    THEN currentData.temperature
    ELSE Adjusted(Append(Sanitize(Temperatures(history)), currentData.temperature),
                  currentData.temperature, method, HorizonSteps(horizonMinutes),
                  random)

\* Mutant of HasPrediction: no reading counts as carrying a forecast.
HasPrediction_Never(point) == point.predicted_temp # point.predicted_temp

\* Mutant of HasPrediction: the test is inverted.
HasPrediction_Inverted(point) ==
    point.predicted_temp = Null \/ point.predicted_temp = Undefined

\* point.predicted_temp !== null && point.predicted_temp !== undefined
HasPrediction(point) ==
    point.predicted_temp # Null /\ point.predicted_temp # Undefined

\* Mutant of annotatePoint: the result is built without the fields of the
\* point (the spread is missing).
annotatePoint_NoSpread(point, index, tempHistory, method, horizonSteps, random) ==
    IF HasPrediction(point)
    THEN point
    ELSE [predicted_temp |->
             Adjusted(SliceFirst(tempHistory, index), point.temperature, method,
                      horizonSteps, random)]

\* The callback of dataPoints.map; index is the 1-based position of point.
annotatePoint(point, index, tempHistory, method, horizonSteps, random) ==
    IF HasPrediction(point)
    THEN point
    ELSE [point EXCEPT !.predicted_temp =
             Adjusted(SliceFirst(tempHistory, index), point.temperature, method,
                      horizonSteps, random)]

\* dataPoints.map(...) over the sanitized temperatures tempHistory.
annotateAll(dataPoints, tempHistory, method, horizonSteps, random) ==
    IF Len(tempHistory) = 0
    THEN dataPoints
    ELSE [index \in 1..Len(dataPoints) |->
             annotatePoint(dataPoints[index], index, tempHistory, method,
                           horizonSteps, random[index])]

\* random[i] is the draw made while the point at position i is processed.
computePredictionsForHistory(dataPoints, method, horizonMinutes, random) ==
    IF Len(dataPoints) = 0
    THEN dataPoints
    ELSE annotateAll(dataPoints, Sanitize(Temperatures(dataPoints)), method,
                     HorizonSteps(horizonMinutes), random)

(***************************************************************************)
(* State.  The engine keeps no state between calls: the state of the model *)
(* is the arguments of a call and what the call returned.                  *)
(*   points, selector, horizon   arguments of predictTemperature and       *)
(*                               computePredictionsForHistory              *)
(*   op, at                      the last call made, and for               *)
(*                               predictTemperature the position in points *)
(*                               of the current reading (history is what   *)
(*                               precedes it)                              *)
(*   annotated, predicted        what the call returned                    *)
(*   series, steps, forecast     arguments and result of a direct call of  *)
(*                               a forecaster                              *)
(*   raw, sanitized              argument and result of the temperature    *)
(*                               filter                                    *)
(* The API server and the dashboard keep state of their own:              *)
(*   store                       the records under /sensors of the         *)
(*                               database, in the order of their keys      *)
(*   serverTime                  the instant the clock of the server       *)
(*                               showed when it was last read              *)
(*   calls                       the calls in progress, a bag: for each    *)
(*                               the await its handler is at (pc), its     *)
(*                               arguments (limit, request, thresholds),   *)
(*                               its local variables (latest,              *)
(*                               sensorHistory), the request it awaits, on *)
(*                               its way to the database or served by it   *)
(*                               (pending), and the response it has sent   *)
(*                               or the result of fetchSensors, until the  *)
(*                               caller has taken it (response)            *)
(*   configWrites                the values written under /config          *)
(*   alerts, clock               the dashboard's alert list and the time   *)
(*                               in seconds                                *)
(***************************************************************************)
VARIABLES points, selector, horizon, op, at, annotated, predicted,
          series, steps, forecast, raw, sanitized,
          store, serverTime, calls,
          configWrites, alerts, clock

engineVars == << points, selector, horizon, op, at, annotated, predicted,
                 series, steps, forecast, raw, sanitized >>

serverVars == << store, serverTime, calls >>

configVars == << configWrites >>

dashboardVars == << alerts, clock >>

vars == << engineVars, serverVars, configVars, dashboardVars >>

MaxPoints == 3
MaxSeries == 4
MaxRaw == 5

\* All sequences over S of length at most n.
SeqsUpTo(S, n) == UNION { [1..k -> S] : k \in 0..n }

Reading(temperature, predicted_temp) ==
    [temperature |-> temperature, predicted_temp |-> predicted_temp, timestamp |-> 0]

\* Readings as a caller can hand them over: valid temperatures inside and
\* outside the plausible range (19.6 gives, with 20.0, the moving average
\* 19.8, at a distance from 20.0 that is below 0.2 only as a double), values
\* the filter drops, readings without a forecast (null or undefined) and a
\* reading that already carries one.
ReadingValues ==
    { Reading(Num(2000), Undefined), Reading(Num(1960), Undefined),
      Reading(Num(3500), Undefined),
      Reading(Num(4000), Null), Reading(Num(0), Undefined),
      Reading(Num(-500), Null), Reading(NaN, Undefined),
      Reading(Null, Null), Reading(Num(2000), Num(2280)) }

\* The timestamp of a reading is its position.
Stamped(s) == [i \in 1..Len(s) |-> [s[i] EXCEPT !.timestamp = i]]

Methods == { "exponential", "moving_average" }

\* 0 min and the default 7.5 min (90 steps).
Horizons == { Num(0), Num(750) }

PositiveTemps == { Num(2000), Num(2050), Num(2100), Num(2200), Num(4000) }

\* Series longer than the windows of the forecasters (5, 15 and 20 points):
\* a first value far from the rest, then n values between 20.0 and 20.6.
Wave(n, k) == [i \in 1..n |-> Num(2000 + 10 * ((i * i * k) % 7))]

LongSeries ==
    { << first >> \o Wave(n, k) :
        first \in { Num(1600), Num(3000) }, n \in { 5, 14, 15, 19, 20, 21 },
        k \in { 1, 2 } }

\* Arithmetic progressions of positive temperatures: a, a + d, a + 2d, ...
Progression(a, d, n) == [k \in 1..n |-> Num(a + (k - 1) * d)]

Progressions ==
    { Progression(a, d, n) :
        a \in { 2000, 2170, 3000 }, d \in { 0, 10, -25, -100 }, n \in { 3, 10, 20 } }

\* The step counts up to which the extrapolation of a linear series is
\* compared with the exact one, and the temperature up to which its points
\* are.
MaxStepCount == 100
MaxLinearTemp == 100

\* Step counts: none, 10, 12, the largest compared and one far beyond it.
StepCounts == { 0, 10, 12, MaxStepCount, 10000000 }

RawTemps == { Num(2210), Num(2340), Num(-500), Num(0), NaN, Infinity, Undefined }

NoForecast == Zero

IdleCalls ==
    /\ op = "none" /\ at = 0
    /\ annotated = << >> /\ predicted = Undefined
    /\ forecast = NoForecast /\ sanitized = << >>

\* A value of the thresholds field of a request body: what typeof gives for
\* it, whether it is truthy, and which value of that kind it is.
Thresholds(kind, truthy, id) == [kind |-> kind, truthy |-> truthy, id |-> id]

NoThresholds == Thresholds("undefined", FALSE, 0)

\* No response sent.  For a call of fetchSensors: whether its request
\* failed, and what it returned.
NoResponse ==
    [route |-> "none", status |-> 0, predicted_temp |-> Undefined,
     timestamp |-> 0, thresholds |-> NoThresholds,
     failed |-> FALSE, sensors |-> << >>]

\* const { method = 'exponential', horizon = 7.5 } = req.body
DefaultRequest == [method |-> "exponential", horizon |-> Num(750)]

\* The calls the server handles at a time.
MaxCalls == 2

\* The instant the clock of the server shows at start; the timestamps the
\* simulator gives are earlier.
FirstInstant == 3

\* No request of axios is awaited.
NoRequest == [kind |-> "none", served |-> FALSE, data |-> << >>]

\* A call before its handler has taken its arguments.
NoCall ==
    [pc |-> "none", limit |-> 0, request |-> DefaultRequest,
     thresholds |-> NoThresholds, latest |-> Null, sensorHistory |-> << >>,
     pending |-> NoRequest, response |-> NoResponse]

InProgress == BagToSet(calls)

\* The server after start: an empty database, no request being handled.
ServerIdle == store = << >> /\ serverTime = FirstInstant /\ calls = EmptyBag

ConfigIdle == configWrites = << >>

\* The dashboard after mount: const [alerts, setAlerts] = useState([])
DashboardIdle == alerts = << >> /\ clock = 0

\* No call of the engine is made.
EngineIdle ==
    /\ points = << >> /\ selector = "exponential" /\ horizon = Num(750)
    /\ series = << >> /\ steps = 0 /\ raw = << >>
    /\ IdleCalls

\* The caller takes the result; the engine keeps nothing of the call.
Return ==
    /\ op # "none"
    /\ op' = "none" /\ at' = 0
    /\ annotated' = << >> /\ predicted' = Undefined
    /\ forecast' = NoForecast /\ sanitized' = << >>
    /\ UNCHANGED << serverVars, configVars, dashboardVars >>
    /\ UNCHANGED << points, selector, horizon, series, steps, raw >>

(***************************************************************************)
(* Spec: calls of predictTemperature and computePredictionsForHistory.     *)
(***************************************************************************)
Init ==
    /\ points \in { Stamped(s) : s \in SeqsUpTo(ReadingValues, MaxPoints) }
    /\ selector \in Methods
    /\ horizon \in Horizons
    /\ series = << >> /\ steps = 0 /\ raw = << >>
    /\ IdleCalls
    /\ ServerIdle /\ ConfigIdle /\ DashboardIdle

\* The positions whose result depends on the draw: up and down are the
\* results with every draw above and with every draw below 0.5.
Drawn(up, down) == { i \in 1..Len(up) : up[i] # down[i] }

\* computePredictionsForHistory(points, ...), once for every outcome of the
\* draws of Math.random().  A draw at a position that is not in Drawn is not
\* consulted and is not varied.
Annotate ==
    /\ op = "none"
    /\ \E draws \in [Drawn(computePredictionsForHistory(points, selector, horizon,
                                                        [i \in 1..Len(points) |-> TRUE]),
                             computePredictionsForHistory(points, selector, horizon,
                                                        [i \in 1..Len(points) |-> FALSE]))
                          -> BOOLEAN] :
          annotated' = computePredictionsForHistory(points, selector, horizon,
                          [i \in 1..Len(points) |->
                              IF i \in DOMAIN draws THEN draws[i] ELSE FALSE])
    /\ op' = "annotate"
    /\ UNCHANGED << serverVars, configVars, dashboardVars >>
    /\ UNCHANGED << points, selector, horizon, at, predicted,
                    series, steps, forecast, raw, sanitized >>

\* Mutant of Predict: the current temperature is pushed on the caller's
\* history (the filtered copy is not made).
Predict_PushesOnHistory ==
    /\ op = "none"
    /\ \E i \in 1..Len(points), random \in BOOLEAN :
          /\ predicted' = predictTemperature(SubSeq(points, 1, i - 1), points[i],
                                             selector, horizon, random)
          /\ at' = i
          /\ points' = SubSeq(points, 1, i - 1) \o << points[i] >>
                           \o SubSeq(points, i, Len(points))
    /\ op' = "predict"
    /\ UNCHANGED << serverVars, configVars, dashboardVars >>
    /\ UNCHANGED << selector, horizon, annotated,
                    series, steps, forecast, raw, sanitized >>

\* predictTemperature(points[0..i-1], points[i], ...), i 0-based = at - 1.
Predict ==
    /\ op = "none"
    /\ \E i \in 1..Len(points), random \in BOOLEAN :
          /\ predicted' = predictTemperature(SubSeq(points, 1, i - 1), points[i],
                                             selector, horizon, random)
          /\ at' = i
    /\ op' = "predict"
    /\ UNCHANGED << serverVars, configVars, dashboardVars >>
    /\ UNCHANGED << points, selector, horizon, annotated,
                    series, steps, forecast, raw, sanitized >>

\* predictTemperature(points, null, ...): there is no current reading.
PredictNoReading ==
    /\ op = "none"
    /\ \E random \in BOOLEAN :
          predicted' = predictTemperature(points, Null, selector, horizon, random)
    /\ op' = "predictNoReading"
    /\ UNCHANGED << serverVars, configVars, dashboardVars >>
    /\ UNCHANGED << points, selector, horizon, at, annotated,
                    series, steps, forecast, raw, sanitized >>

Next == Annotate \/ Predict \/ PredictNoReading \/ Return

Spec == Init /\ [][Next]_vars

(***************************************************************************)
(* HorizonSpec: the same calls, on at most MaxPoints - 1 readings, with a  *)
(* horizon that is negative (-1 min or -7.5 min: -12 or -90 steps) or not  *)
(* finite (NaN, Infinity).                                                 *)
(***************************************************************************)
BadHorizons == { Num(-100), Num(-750), NaN, Infinity }

HorizonInit ==
    /\ points \in { Stamped(s) : s \in SeqsUpTo(ReadingValues, MaxPoints - 1) }
    /\ selector \in Methods
    /\ horizon \in BadHorizons
    /\ series = << >> /\ steps = 0 /\ raw = << >>
    /\ IdleCalls
    /\ ServerIdle /\ ConfigIdle /\ DashboardIdle

HorizonSpec == HorizonInit /\ [][Next]_vars

(***************************************************************************)
(* ParamSpec: the same calls over more values of the parameters and fewer  *)
(* readings: a selector that is neither of the two names, horizons that    *)
(* are not a whole number of steps (0.04 min = 0.48 steps, 0.125 min = 1.5 *)
(* steps), and a temperature with three decimals (22.123).                 *)
(***************************************************************************)
ParamReadings ==
    { Reading(Num(2000), Undefined), Reading(Num(2050), Undefined),
      Reading(Fine(2212, 300), Undefined), Reading(NaN, Undefined) }

ParamMethods == { "exponential", "moving_average", "moving_avg" }

ParamHorizons == { Num(4), Fine(12, 500), Num(750) }

ParamInit ==
    /\ points \in { Stamped(s) : s \in SeqsUpTo(ParamReadings, MaxPoints) }
    /\ selector \in ParamMethods
    /\ horizon \in ParamHorizons
    /\ series = << >> /\ steps = 0 /\ raw = << >>
    /\ IdleCalls
    /\ ServerIdle /\ ConfigIdle /\ DashboardIdle

ParamSpec == ParamInit /\ [][Next]_vars

(***************************************************************************)
(* ForecastSpec: direct calls of the two forecasters on a sanitized series.*)
(***************************************************************************)
ForecastInit ==
    /\ series \in SeqsUpTo(PositiveTemps, MaxSeries) \cup LongSeries \cup Progressions
    /\ steps \in StepCounts
    /\ points = << >> /\ selector = "exponential" /\ horizon = Num(0) /\ raw = << >>
    /\ IdleCalls
    /\ ServerIdle /\ ConfigIdle /\ DashboardIdle

ForecastExponential ==
    /\ op = "none"
    /\ forecast' = predictWithExponentialSmoothing(series, FromInt(steps))
    /\ op' = "exponential"
    /\ UNCHANGED << serverVars, configVars, dashboardVars >>
    /\ UNCHANGED << points, selector, horizon, at, annotated, predicted,
                    series, steps, raw, sanitized >>

ForecastMovingAverage ==
    /\ op = "none"
    /\ forecast' = predictWithMovingAverage(series, FromInt(steps))
    /\ op' = "moving_average"
    /\ UNCHANGED << serverVars, configVars, dashboardVars >>
    /\ UNCHANGED << points, selector, horizon, at, annotated, predicted,
                    series, steps, raw, sanitized >>

ForecastNext == ForecastExponential \/ ForecastMovingAverage \/ Return

ForecastSpec == ForecastInit /\ [][ForecastNext]_vars

(***************************************************************************)
(* SanitizeSpec: the temperature filter on raw values.                     *)
(***************************************************************************)
SanitizeInit ==
    /\ raw \in SeqsUpTo(RawTemps, MaxRaw)
    /\ points = << >> /\ selector = "exponential" /\ horizon = Num(0)
    /\ series = << >> /\ steps = 0
    /\ IdleCalls
    /\ ServerIdle /\ ConfigIdle /\ DashboardIdle

SanitizeCall ==
    /\ op = "none"
    /\ sanitized' = Sanitize(raw)
    /\ op' = "sanitize"
    /\ UNCHANGED << serverVars, configVars, dashboardVars >>
    /\ UNCHANGED << points, selector, horizon, at, annotated, predicted,
                    series, steps, forecast, raw >>

SanitizeNext == SanitizeCall \/ Return

SanitizeSpec == SanitizeInit /\ [][SanitizeNext]_vars

(***************************************************************************)
(* Properties.                                                             *)
(***************************************************************************)
\* 15.0 <= x && x <= 35.0
InRange(x) ==
    /\ x.k = "fin"
    /\ ~FLess(x, FromInt(15)) /\ ~FLess(FromInt(35), x)

\* What computePredictionsForHistory returns at position i for the input pts
\* when the draw made at that position is r.
OutputAt(pts, i, r) ==
    computePredictionsForHistory(pts, selector, horizon,
                                 [j \in 1..Len(pts) |-> r])[i]

\* Inputs that agree with pts on the positions 1..i and differ only after i:
\* pts cut after i, and pts with one later reading replaced.
LaterVariants(pts, i) ==
    { SubSeq(pts, 1, i) }
    \cup { [pts EXCEPT ![j] = [v EXCEPT !.timestamp = j]] :
              j \in (i + 1)..Len(pts), v \in ReadingValues }

\* C1 (as claimed): no lookahead.  For every position i without a
\* precomputed forecast, the predicted_temp written at i is the same (the
\* random draw aside) for every input that agrees with points on the
\* positions up to i.
C1_NoLookahead ==
    op = "annotate" =>
        \A i \in 1..Len(points) :
            (points[i].predicted_temp \in { Null, Undefined }
                /\ annotated[i].predicted_temp \notin { Null, Undefined }) =>
                \A q \in LaterVariants(points, i) :
                    \E r \in BOOLEAN : OutputAt(q, i, r) = annotated[i]

\* C2 (as claimed): for every position i without a precomputed forecast the
\* predicted_temp of computePredictionsForHistory equals what
\* predictTemperature returns for history points[0..i-1] and current
\* points[i], for one of the two outcomes of the draw.
C2_AnnotateIsPredict ==
    op = "annotate" =>
        \A i \in 1..Len(points) :
            points[i].predicted_temp \in { Null, Undefined } =>
                \E r \in BOOLEAN :
                    annotated[i].predicted_temp =
                        predictTemperature(SubSeq(points, 1, i - 1), points[i],
                                           selector, horizon, r)

\* C3 (as claimed): for a series of positive temperatures of any length and
\* any step count, both forecasters return a value in [15.0, 35.0].
C3_ForecastInRange ==
    op \in { "exponential", "moving_average" } => InRange(forecast)

\* C4 (as claimed): every value predictTemperature returns and every
\* predicted_temp computePredictionsForHistory computes is in [15.0, 35.0].
C4_ResultInRange ==
    /\ op \in { "predict", "predictNoReading" } =>
          predicted.type = "number" /\ predicted.v >= 1500 /\ predicted.v <= 3500
    /\ op = "annotate" =>
          \A i \in 1..Len(points) :
              (points[i].predicted_temp \in { Null, Undefined }
                  /\ annotated[i].predicted_temp \notin { Null, Undefined }) =>
                  /\ annotated[i].predicted_temp.type = "number"
                  /\ annotated[i].predicted_temp.v >= 1500
                  /\ annotated[i].predicted_temp.v <= 3500

\* C5: ownership.  A reading whose predicted_temp is neither null nor
\* undefined is returned by computePredictionsForHistory unchanged, in every
\* field, whatever the method, the horizon and the other readings.
C5_Ownership ==
    op = "annotate" =>
        /\ Len(annotated) = Len(points)
        /\ \A i \in 1..Len(points) :
              points[i].predicted_temp \notin { Null, Undefined } =>
                  annotated[i] = points[i]

\* C5 witness: a call returned a reading with its own forecast untouched
\* next to a reading for which it computed one.
C5_Witness ==
    /\ op = "annotate"
    /\ \E i, j \in 1..Len(points) :
          /\ points[i].predicted_temp = Num(2280)
          /\ annotated[i] = points[i]
          /\ points[j].predicted_temp = Undefined
          /\ annotated[j].predicted_temp.type = "number"

\* C6 (as claimed): minimum visible difference.  For a usable current
\* temperature, predictTemperature returns f with |f - current| >= 0.2.
C6_MinVisibleDifference ==
    (op = "predict" /\ points[at].temperature.type = "number"
                    /\ points[at].temperature.v > 0) =>
        \/ predicted.v - points[at].temperature.v >= 20
        \/ points[at].temperature.v - predicted.v >= 20

\* C7 (as claimed): without a usable current temperature (no reading, or
\* temperature null, undefined, NaN, 0 or negative) predictTemperature
\* returns exactly 22.0.
C7_FallbackOnUnusable ==
    /\ op = "predictNoReading" => predicted = Num(2200)
    /\ (op = "predict" /\ ~(points[at].temperature.type = "number"
                            /\ points[at].temperature.v > 0)) =>
          predicted = Num(2200)

\* A temperature that is numeric, not NaN and strictly greater than 0.
ValidTemp(t) == t.type = "Infinity" \/ (t.type = "number" /\ t.v > 0)

\* C8: the temperature filter returns exactly the sub-sequence of the valid
\* temperatures, in their order and with repetitions: the k-th value
\* returned is the input value at the k-th valid position.
C8_SanitizeIsValidSubsequence ==
    op = "sanitize" =>
        LET valid == { i \in 1..Len(raw) : ValidTemp(raw[i]) }
        IN  /\ Len(sanitized) = Cardinality(valid)
            /\ \A i \in valid :
                  sanitized[Cardinality({ j \in valid : j <= i })] = raw[i]
            /\ (raw = << Num(2210), Num(-500), NaN, Num(0), Num(2340) >>
                  => sanitized = << Num(2210), Num(2340) >>)

\* C8 witness: the filter ran on the example input and kept its two valid
\* values.
C8_Witness ==
    /\ op = "sanitize"
    /\ raw = << Num(2210), Num(-500), NaN, Num(0), Num(2340) >>
    /\ sanitized = << Num(2210), Num(2340) >>

\* C9: on fewer than 3 points predictWithExponentialSmoothing, and on fewer
\* than 2 points predictWithMovingAverage, return the last value of the
\* series as it is, for every step count, or 22.0 for the empty series.
C9_ShortSeriesVerbatim ==
    LET last == IF Len(series) = 0 THEN FromInt(22)
                ELSE Dec(series[Len(series)].v, 100)
    IN  /\ (op = "exponential" /\ Len(series) < 3) => forecast = last
        /\ (op = "moving_average" /\ Len(series) < 2) => forecast = last
        /\ (op = "exponential" /\ series = << Num(2200) >> /\ steps = 10)
              => forecast = FromInt(22)

\* C9 witness: exponential smoothing ran on two rising points with a
\* horizon of 10 steps and returned the last one, which is outside the clamp.
C9_Witness ==
    /\ op = "exponential"
    /\ series = << Num(2000), Num(4000) >>
    /\ steps = 10
    /\ forecast = FromInt(40)

\* The Holt recurrence of the claim over w, after the points w[0..i]
\* (0-based), in the arithmetic of JavaScript numbers and with the factors
\* as the claim writes them: level0 = w[0], trend0 = w[1] - w[0], then
\* level' = 0.3 w[i] + 0.7 (level + trend), trend' = 0.2 (level' - level) + 0.8 trend.
RECURSIVE C10_Holt(_, _)
C10_Holt(w, i) ==
    IF i = 0
    THEN [level |-> Dec(w[1].v, 100),
          trend |-> FSub(Dec(w[2].v, 100), Dec(w[1].v, 100))]
    ELSE LET p == C10_Holt(w, i - 1)
             l == FAdd(FMul(Dec(3, 10), Dec(w[i + 1].v, 100)),
                       FMul(Dec(7, 10), FAdd(p.level, p.trend)))
             t == FAdd(FMul(Dec(2, 10), FSub(l, p.level)),
                       FMul(Dec(8, 10), p.trend))
         IN  IF Evaluated(p) THEN [level |-> l, trend |-> t] ELSE p

\* C10: on at least 3 points predictWithExponentialSmoothing returns
\* clamp(level + trend * h, 15, 35), level and trend from the Holt recurrence
\* over the last 20 points, oldest first; [20.0, 20.5, 21.0] with h = 12
\* gives more than 21.0.
C10_HoltForecast ==
    (op = "exponential" /\ Len(series) >= 3) =>
        LET w == IF Len(series) <= 20 THEN series
                 ELSE SubSeq(series, Len(series) - 19, Len(series))
            h == C10_Holt(w, Len(w) - 1)
            x == FAdd(h.level, FMul(h.trend, FromInt(steps)))
            clamped == IF FLess(x, FromInt(15)) THEN FromInt(15)
                       ELSE IF FLess(FromInt(35), x) THEN FromInt(35)
                       ELSE x
        IN  /\ forecast = clamped
            /\ (series = << Num(2000), Num(2050), Num(2100) >> /\ steps = 12)
                  => FLess(FromInt(21), forecast)

\* C10 witness: the example of the claim ran; the recurrence gives level
\* 21.0 and trend 0.5, and 12 steps ahead the forecast is 27.0.
C10_Witness ==
    /\ op = "exponential"
    /\ series = << Num(2000), Num(2050), Num(2100) >>
    /\ steps = 12
    /\ forecast = FromInt(27)

\* C11: rolling window.  On at least 3 points
\* predictWithExponentialSmoothing(s, h) is
\* predictWithExponentialSmoothing(last 20 points of s, h), and replacing a
\* point older than the 20 most recent ones does not change the result.
C11_RollingWindow ==
    (op = "exponential" /\ Len(series) >= 3) =>
        LET recent == IF Len(series) <= 20 THEN series
                      ELSE SubSeq(series, Len(series) - 19, Len(series))
        IN  /\ forecast = predictWithExponentialSmoothing(recent, FromInt(steps))
            /\ \A j \in 1..(Len(series) - 20), v \in PositiveTemps :
                  predictWithExponentialSmoothing([series EXCEPT ![j] = v],
                                                  FromInt(steps))
                      = forecast

\* C11 witness: exponential smoothing ran on 22 points whose two oldest are
\* outside the window, the first of them (30.0) far from the rest, and
\* returned a forecast strictly inside the clamp.
C11_Witness ==
    /\ op = "exponential"
    /\ Len(series) = 22
    /\ series[1] = Num(3000)
    /\ steps = 12
    /\ FLess(FromInt(15), forecast) /\ FLess(forecast, FromInt(35))

\* The sum of the first i points of w, added one by one from the oldest on.
RECURSIVE C12_Total(_, _)
C12_Total(w, i) ==
    IF i = 0 THEN Zero
    ELSE LET before == C12_Total(w, i - 1)
         IN  IF Evaluated(before) THEN FAdd(before, Dec(w[i].v, 100)) ELSE before

\* C12: on at least 2 points predictWithMovingAverage returns
\* clamp(mean + trend * h, 15, 35), mean the arithmetic mean of the last 15
\* points and trend (last - first) / (count - 1) over the last 5 points;
\* replacing a point older than the 15 most recent ones does not change the
\* result.
C12_MovingAverageForecast ==
    (op = "moving_average" /\ Len(series) >= 2) =>
        LET n == Len(series)
            w == IF n <= 15 THEN series ELSE SubSeq(series, n - 14, n)
            count == IF n <= 5 THEN n ELSE 5
            first == series[n - count + 1]
            mean == FDivInt(C12_Total(w, Len(w)), Len(w))
            trend == FDivInt(FSub(Dec(series[n].v, 100), Dec(first.v, 100)),
                             count - 1)
            x == FAdd(mean, FMul(trend, FromInt(steps)))
            clamped == IF FLess(x, FromInt(15)) THEN FromInt(15)
                       ELSE IF FLess(FromInt(35), x) THEN FromInt(35)
                       ELSE x
        IN  /\ forecast = clamped
            /\ \A j \in 1..(n - 15), v \in PositiveTemps :
                  predictWithMovingAverage([series EXCEPT ![j] = v], FromInt(steps))
                      = forecast

\* C12 witness: the moving average ran on 16 points, the oldest (30.0)
\* outside the window of 15, and returned a forecast strictly inside the
\* clamp that moves with the horizon.
C12_Witness ==
    /\ op = "moving_average"
    /\ Len(series) = 16
    /\ series[1] = Num(3000)
    /\ steps = 12
    /\ series[16] # series[12]
    /\ FLess(FromInt(15), forecast) /\ FLess(forecast, FromInt(35))

\* current + d clamped to [15, 35] and rounded to 2 decimals, current and d
\* in hundredths.
C13_Nudge(current, d) ==
    Num(IF current + d < 1500 THEN 1500
        ELSE IF current + d > 3500 THEN 3500
        ELSE current + d)

\* result is x rounded to 2 decimals, halves up: result * 100 is the whole
\* number with result * 100 <= x * 100 + 0.5 < result * 100 + 1.
C13_IsRound2(result, x) ==
    /\ result.type = "number" /\ result.rem = 0
    /\ ~FLess(FAdd(FMul(x, FromInt(100)), Dec(1, 2)), FromInt(result.v))
    /\ FLess(FAdd(FMul(x, FromInt(100)), Dec(1, 2)), FromInt(result.v + 1))

\* The rule of the nudge for one result: work is the working series, current
\* the current temperature, results the results of the two outcomes of the
\* draw, result the one returned.  With exact set, a forecast that is not
\* nudged has to be returned as it is; otherwise rounded to 2 decimals.
C13_Rule(work, current, results, result, exact) ==
    LET model == Forecast(selector, work, HorizonSteps(horizon))
        c == ToNumber(current)
        close == /\ c.type = "number"
                 /\ FLess(FAbs(FSub(model, Dec(c.v, 100))), Dec(2, 10))
        delta == IF Len(work) >= 2
                 THEN work[Len(work)].v - work[Len(work) - 1].v
                 ELSE 0
    IN  IF close
        THEN /\ delta > 0 => result = C13_Nudge(c.v, 20)
             /\ delta < 0 => result = C13_Nudge(c.v, -20)
             /\ delta = 0 => /\ result \in results
                             /\ results = { C13_Nudge(c.v, 20), C13_Nudge(c.v, -20) }
        ELSE IF exact
             THEN result.type = "number" /\ Dec(result.v, 100) = model
             ELSE C13_IsRound2(result, model)

\* The rule for the results of predictTemperature (reached past the guards:
\* the current temperature is truthy and the history has a valid value) and
\* for every predicted_temp that computePredictionsForHistory computes.
C13_Check(exact) ==
    /\ op = "predict" =>
          LET filtered == Sanitize(Temperatures(SubSeq(points, 1, at - 1)))
              current == points[at].temperature
          IN  (Truthy(current) /\ Len(filtered) > 0) =>
                  C13_Rule(Append(filtered, current), current,
                           { predictTemperature(SubSeq(points, 1, at - 1), points[at],
                                                selector, horizon, r) :
                               r \in BOOLEAN },
                           predicted, exact)
    /\ op = "annotate" =>
          LET tempHistory == Sanitize(Temperatures(points))
          IN  \A i \in 1..Len(points) :
                  (Len(tempHistory) > 0
                      /\ points[i].predicted_temp \in { Null, Undefined }) =>
                      C13_Rule(SliceFirst(tempHistory, i), points[i].temperature,
                               { OutputAt(points, i, r).predicted_temp :
                                   r \in BOOLEAN },
                               annotated[i].predicted_temp, exact)

\* C13 (amended): nudge direction.  When |model forecast - current| < 0.2 the
\* result is round2(clamp(current + d, 15, 35)), d = +0.2 for a positive last
\* delta of the working series, -0.2 for a negative one, and either of the
\* two (both are results of the call) for a zero delta or a series of fewer
\* than 2 points.  Otherwise the result is the model forecast rounded to 2
\* decimals, without nudge.
C13_NudgeDirection == C13_Check(FALSE)

\* C13 (as claimed): the same, but a forecast that is not nudged is returned
\* as it is.
C13_AsClaimed == C13_Check(TRUE)

\* C13 witness: predictTemperature found the forecast of [35.0, 20.0] equal
\* to the current 20.0 and nudged it down, with the falling delta, to 19.8.
C13_Witness ==
    /\ op = "predict" /\ at = 2
    /\ selector = "exponential"
    /\ points[1].temperature = Num(3500)
    /\ points[2].temperature = Num(2000)
    /\ predicted = Num(1980)

\* The outcome of a call that raises.  No statement of the engine raises and
\* no operation it applies does, so no call of the model has this outcome.
C14_Raised == [type |-> "error", v |-> 0]

\* C14 (as claimed): with a horizon that is negative, NaN or infinite
\* predictTemperature and computePredictionsForHistory fail instead of
\* returning a forecast.
C14_BadHorizonFails ==
    (horizon.type # "number" \/ horizon.v < 0) =>
        /\ op \in { "predict", "predictNoReading" } => predicted = C14_Raised
        /\ op = "annotate" => annotated = << C14_Raised >>

\* C15: the engine does not fail on bad numeric data.  Whatever the
\* temperatures of the readings are (positive, 0, negative, NaN, null),
\* predictTemperature returns a number and computePredictionsForHistory
\* returns a sequence with one reading per input reading, each predicted_temp
\* in it a number or left as it was.
C15_NeverRaises ==
    /\ op \in { "predict", "predictNoReading" } => predicted.type = "number"
    /\ op = "annotate" =>
          /\ DOMAIN annotated = 1..Len(points)
          /\ \A i \in 1..Len(points) :
                \/ annotated[i].predicted_temp.type = "number"
                \/ annotated[i].predicted_temp = points[i].predicted_temp

\* C15 witness: predictTemperature was called with a history of NaN and 0
\* and a current temperature of null, and returned 22.0.
C15_Witness ==
    /\ op = "predict" /\ at = 3
    /\ points[1].temperature = NaN
    /\ points[2].temperature = Num(0)
    /\ points[3].temperature = Null
    /\ predicted = Num(2200)

\* C16: computePredictionsForHistory returns as many readings as it was
\* given, in the same order, each with the temperature, the timestamp and
\* every other field of the input reading but predicted_temp; an empty input
\* gives an empty result.
C16_SameReadings ==
    op = "annotate" =>
        /\ Len(annotated) = Len(points)
        /\ \A i \in 1..Len(points) :
              /\ DOMAIN annotated[i] = DOMAIN points[i]
              /\ \A field \in DOMAIN points[i] \ { "predicted_temp" } :
                    annotated[i][field] = points[i][field]
        /\ points = << >> => annotated = << >>

\* C16 witness: a call on three readings, the second without a valid
\* temperature, returned three readings and computed a forecast for the
\* first and the third.
C16_Witness ==
    /\ op = "annotate"
    /\ Len(points) = 3 /\ Len(annotated) = 3
    /\ points[2].temperature = Num(-500)
    /\ annotated[2].temperature = Num(-500)
    /\ points[1].predicted_temp = Undefined /\ annotated[1].predicted_temp.type = "number"
    /\ points[3].predicted_temp = Null /\ annotated[3].predicted_temp.type = "number"

\* C17: determinism.  The forecasters take no draw: their result is fixed by
\* the series and the step count.  predictTemperature returns the same value
\* for both outcomes of the draw, except when the nudge is triggered
\* (|model forecast - current| < 0.2) and the last delta of the working
\* series is zero or the series has fewer than 2 points.
C17_Determinism ==
    /\ op = "predictNoReading" =>
          \A r \in BOOLEAN :
              predictTemperature(points, Null, selector, horizon, r) = predicted
    /\ op = "predict" =>
          LET history == SubSeq(points, 1, at - 1)
              current == points[at].temperature
              work == Append(Sanitize(Temperatures(history)), current)
              model == Forecast(selector, work, HorizonSteps(horizon))
              nudged == /\ Truthy(current) /\ Len(work) >= 2
                        /\ FLess(FAbs(FSub(model, Dec(current.v, 100))),
                                 Dec(2, 10))
              zeroDelta == work[Len(work)].v = work[Len(work) - 1].v
              up == predictTemperature(history, points[at], selector, horizon, TRUE)
              down == predictTemperature(history, points[at], selector, horizon, FALSE)
          IN  /\ predicted \in { up, down }
              /\ up # down => nudged /\ zeroDelta

\* C17 witness: predictTemperature nudged the forecast of [40.0, 20.0] down
\* with the falling delta; the draw had no part in the result 19.8.
C17_Witness ==
    /\ op = "predict" /\ at = 2
    /\ selector = "exponential"
    /\ points[1].temperature = Num(4000)
    /\ points[2].temperature = Num(2000)
    /\ predicted = Num(1980)

\* C18 (as claimed): the filter treats +Infinity as absent, as it does NaN, 0
\* and negative values: no value it returns is +Infinity.
C18_InfinityExcluded ==
    op = "sanitize" =>
        \A k \in 1..Len(sanitized) : sanitized[k] # Infinity

\* C19: purity.  A call of predictTemperature or computePredictionsForHistory
\* leaves the readings it was given (the history, the current reading, the
\* input sequence and each of its points), the method and the horizon as
\* they were, and once it has returned nothing of it is left: a later call
\* with the same arguments starts from the same state.
C19_Purity ==
    [][ /\ points' = points /\ selector' = selector /\ horizon' = horizon
        /\ op' = "none" =>
              /\ at' = 0 /\ annotated' = << >> /\ predicted' = Undefined
              /\ forecast' = NoForecast /\ sanitized' = << >> ]_vars

\* C19 witness: predictTemperature returned a forecast for a current reading
\* of 40.0 after a history of two valid readings, which it copied, filtered
\* and extended.
C19_Witness ==
    /\ op = "predict" /\ at = 3
    /\ selector = "moving_average"
    /\ points[1].temperature = Num(2000)
    /\ points[2].temperature = Num(3500)
    /\ points[3].temperature = Num(4000)
    /\ predicted.type = "number"

\* C20: with a usable current temperature and a history without a valid
\* temperature (empty, or only 0, negative, NaN or null values)
\* predictTemperature returns the current temperature as it is: not nudged,
\* not clamped, not rounded.
C20_EmptyHistoryReturnsCurrent ==
    (/\ op = "predict"
     /\ ValidTemp(points[at].temperature)
     /\ \A j \in 1..(at - 1) : ~ValidTemp(points[j].temperature)) =>
        predicted = points[at].temperature

\* C20 witness: after a history of NaN and -5.0, predictTemperature returned
\* the current 40.0, which is outside the clamp.
C20_Witness ==
    /\ op = "predict" /\ at = 3
    /\ points[1].temperature = NaN
    /\ points[2].temperature = Num(-500)
    /\ points[3].temperature = Num(4000)
    /\ predicted = Num(4000)

(***************************************************************************)
(* The sensor store (firebase.js) and POST /api/predict (server.js).  A    *)
(* stored record holds a temperature, a predicted_temp, a timestamp (0: the *)
(* record has none) and a predicted_at (0: none).  Timestamps are whole     *)
(* numbers; Now is the time of the calls.                                   *)
(***************************************************************************)
(* The API server (server.js), its database client (firebase.js) and the   *)
(* database.  A stored record holds a temperature, a predicted_temp, a     *)
(* timestamp (0: the record has none) and a predicted_at (0: none).        *)
(* Instants are whole numbers.  A handler runs from one await to the next  *)
(* in one step; between two steps of a call the database, the simulator    *)
(* and the other calls take theirs.                                        *)
(***************************************************************************)
MaxStore == 3

\* The last instant the clock shows.
LastInstant == 4

\* fetchSensors(100)
HistoryLimit == 100

Stored(temperature, predicted_temp, timestamp, predicted_at) ==
    [temperature |-> temperature, predicted_temp |-> predicted_temp,
     timestamp |-> timestamp, predicted_at |-> predicted_at]

\* Number(x) || 0
NumberOrZero(x) == IF Truthy(ToNumber(x)) THEN ToNumber(x) ELSE Num(0)

\* Number(x) || null
NumberOrNull(x) == IF Truthy(ToNumber(x)) THEN ToNumber(x) ELSE Null

\* The callback of .map in fetchSensors; stamp is what new Date() gives when
\* the item has no timestamp.
normalize(item, stamp) ==
    [temperature |-> NumberOrZero(item.temperature),
     predicted_temp |-> NumberOrNull(item.predicted_temp),
     timestamp |-> IF item.timestamp = 0 THEN stamp ELSE item.timestamp]

\* .filter(item => item.temperature > 0)
RECURSIVE FilterValid(_)
FilterValid(items) ==
    IF items = << >> THEN << >>
    ELSE IF GreaterThanZero(Head(items).temperature)
         THEN << Head(items) >> \o FilterValid(Tail(items))
         ELSE FilterValid(Tail(items))

\* Mutant of SortNewestFirst: the comparison is reversed (oldest first).
RECURSIVE SortNewestFirst_Reversed(_)
SortNewestFirst_Reversed(items) ==
    IF items = << >> THEN << >>
    ELSE LET sorted == SortNewestFirst_Reversed(SubSeq(items, 1, Len(items) - 1))
             item == items[Len(items)]
             k == Cardinality({ i \in 1..Len(sorted) :
                                  sorted[i].timestamp <= item.timestamp })
         IN  SubSeq(sorted, 1, k) \o << item >> \o SubSeq(sorted, k + 1, Len(sorted))

\* .sort((a, b) => new Date(b.timestamp) - new Date(a.timestamp)): the sort
\* is stable, items with the same timestamp keep their order.
RECURSIVE SortNewestFirst(_)
SortNewestFirst(items) ==
    IF items = << >> THEN << >>
    ELSE LET sorted == SortNewestFirst(SubSeq(items, 1, Len(items) - 1))
             item == items[Len(items)]
             k == Cardinality({ i \in 1..Len(sorted) :
                                  sorted[i].timestamp >= item.timestamp })
         IN  SubSeq(sorted, 1, k) \o << item >> \o SubSeq(sorted, k + 1, Len(sorted))

\* Mutant of Reverse: the readings stay in the order of the sort, newest
\* first.
Reverse_Kept(s) == s

\* sensors.reverse()
Reverse(s) == [i \in 1..Len(s) |-> s[Len(s) + 1 - i]]

\* What new Date() gives while the items of data are mapped one after the
\* other, when the clock shows t before the first: clocks[i] is the clock at
\* item i.  The clock does not go back, and it is read for an item without
\* timestamp only.
ClockReadings(data, t) ==
    { clocks \in [1..Len(data) -> t..LastInstant] :
        \A i \in 1..Len(data) :
            /\ clocks[i] >= (IF i = 1 THEN t ELSE clocks[i - 1])
            /\ data[i].timestamp # 0 =>
                  clocks[i] = (IF i = 1 THEN t ELSE clocks[i - 1]) }

\* The clock after the readings.
LastReading(clocks, t) == IF clocks = << >> THEN t ELSE clocks[Len(clocks)]

\* fetchSensors(limit) from the answer of the database on.  data is
\* response.data (empty: the database holds nothing and answers null); ok is
\* false when the request fails; clocks[i] is what new Date() gives at item i.
fetchSensors(data, limit, ok, clocks) ==
    IF ~ok \/ data = << >>
    THEN << >>
    ELSE Reverse(SliceFirst(SortNewestFirst(FilterValid(
             [i \in 1..Len(data) |-> normalize(data[i], clocks[i])])), limit))

fetchLatestSensor(data, ok, clocks) ==
    LET sensors == fetchSensors(data, 1, ok, clocks)
    IN  IF Len(sensors) > 0 THEN sensors[Len(sensors)] ELSE Null

\* Readings as the simulator stores them, with a timestamp or without one,
\* no forecast: -5.0 at 1, 20.0 and 20.5.
IngestReadings ==
    { Stored(Num(-500), Undefined, 1, 0),
      Stored(Num(2000), Undefined, 0, 0), Stored(Num(2050), Undefined, 0, 0) }

\* Readings the simulator stores with the time of their measurement, 20.0 at
\* 1 and 20.5 at 2, and one it stores without, 20.0.
TimedReadings ==
    { Stored(Num(2000), Undefined, 1, 0), Stored(Num(2050), Undefined, 2, 0),
      Stored(Num(2000), Undefined, 0, 0) }

\* The simulator stores at most MaxIngest readings.
MaxIngest == 2

\* The records of the store that come from the simulator.
Ingested == Cardinality({ i \in 1..Len(store) : store[i].predicted_at = 0 })

Limits == 1..2

\* The body of POST /api/predict: the default, and the moving average for
\* 0 min.
Requests == { DefaultRequest, [method |-> "moving_average", horizon |-> Num(0)] }

\* parseFloat(x): a number and an infinity are read back from their text;
\* the text of NaN, null and undefined begins with no number.
ParseFloat(x) == IF x.type \in { "number", "Infinity", "-Infinity" } THEN x ELSE NaN

\* The temperatures of the readings fetchSensors keeps.
ValidTemps ==
    { NumberOrZero(r.temperature) :
        r \in { x \in IngestReadings \cup TimedReadings :
                   GreaterThanZero(NumberOrZero(x.temperature)) } }

\* What POST /api/predict hands to predictTemperature: the temperatures of
\* the history and of the latest reading, the body of the request, and the
\* draw.  predictTemperature reads nothing else of a reading.
PredictionCases ==
    SeqsUpTo(ValidTemps, MaxStore) \X ValidTemps \X Requests \X BOOLEAN

\* predictTemperature(history, latest, method, parseFloat(horizon)) on each
\* of them, computed once.
Predictions ==
    { << c, predictTemperature([i \in 1..Len(c[1]) |-> Reading(c[1][i], Undefined)],
                                Reading(c[2], Undefined), c[3].method,
                                ParseFloat(c[3].horizon), c[4]) >> :
        c \in PredictionCases }

\* const predictedTemp = predictTemperature(history, latest, method, parseFloat(horizon))
PredictedTemp(history, latestReading, body, random) ==
    (CHOOSE p \in Predictions :
        p[1] = << Temperatures(history), latestReading.temperature, body, random >>)[2]

\* A request of axios on its way to the database.
Sent(kind, data) == [kind |-> kind, served |-> FALSE, data |-> data]

\* The call c goes on as d.
Becomes(c, d) == calls' = (calls (-) SetToBag({ c })) (+) SetToBag({ d })

\* A call is made while fewer than MaxCalls are in progress.
Starts(d) == BagCardinality(calls) < MaxCalls /\ calls' = calls (+) SetToBag({ d })

\* The call c has sent its response; the body of the request and the
\* variables of the handler are gone.
Responded(c, sent) ==
    [c EXCEPT !.pc = "responded", !.response = sent, !.pending = NoRequest,
              !.request = DefaultRequest, !.latest = Null,
              !.sensorHistory = << >>]

\* The simulator stores a reading.
Ingest ==
    /\ Len(store) < MaxStore /\ Ingested < MaxIngest
    /\ \E reading \in IngestReadings : store' = Append(store, reading)
    /\ UNCHANGED << serverTime, calls >>
    /\ UNCHANGED << engineVars, configVars, dashboardVars >>

\* The simulator stores a reading that carries the time of its measurement,
\* or one that carries none.
IngestTimed ==
    /\ Len(store) < MaxStore /\ Ingested < MaxIngest
    /\ \E reading \in TimedReadings : store' = Append(store, reading)
    /\ UNCHANGED << serverTime, calls >>
    /\ UNCHANGED << engineVars, configVars, dashboardVars >>

\* The database answers GET /sensors.json with the records it holds.
ServeSensors(c) ==
    /\ c.pending.kind = "get" /\ ~c.pending.served
    /\ Becomes(c, [c EXCEPT !.pending = [kind |-> "get", served |-> TRUE,
                                         data |-> store]])
    /\ UNCHANGED << store, serverTime >>
    /\ UNCHANGED << engineVars, configVars, dashboardVars >>

\* Mutant of ApplyAppend: the record replaces the last one (PUT, not POST).
ApplyAppend_Overwrites(c) ==
    /\ c.pending.kind = "post" /\ ~c.pending.served
    /\ store # << >>
    /\ store' = [store EXCEPT ![Len(store)] = c.pending.data[1]]
    /\ Becomes(c, [c EXCEPT !.pending.served = TRUE])
    /\ UNCHANGED serverTime
    /\ UNCHANGED << engineVars, configVars, dashboardVars >>

\* The database applies POST /sensors.json: the record gets a new key, after
\* the keys of the records it holds.
ApplyAppend(c) ==
    /\ c.pending.kind = "post" /\ ~c.pending.served
    /\ Len(store) < MaxStore
    /\ store' = Append(store, c.pending.data[1])
    /\ Becomes(c, [c EXCEPT !.pending.served = TRUE])
    /\ UNCHANGED serverTime
    /\ UNCHANGED << engineVars, configVars, dashboardVars >>

\* A call of fetchSensors(limit), up to its request.
FetchSensorsCall ==
    /\ \E limit \in Limits :
          Starts([NoCall EXCEPT !.pc = "sensors", !.limit = limit,
                                !.pending = Sent("get", << >>)])
    /\ UNCHANGED << store, serverTime >>
    /\ UNCHANGED << engineVars, configVars, dashboardVars >>

\* fetchSensors(limit) from the end of its await on: the answer of the
\* database has come (ok), or the request has failed.
FetchSensorsReturn(c) ==
    /\ c.pc = "sensors"
    /\ \E ok \in BOOLEAN :
          /\ ok => c.pending.served
          /\ \E clocks \in ClockReadings(IF ok THEN c.pending.data ELSE << >>, serverTime) :
                /\ Becomes(c, Responded(c, [NoResponse EXCEPT
                                              !.route = "fetchSensors",
                                              !.failed = ~ok,
                                              !.sensors = fetchSensors(c.pending.data,
                                                                       c.limit, ok, clocks)]))
                /\ serverTime' = LastReading(clocks, serverTime)
    /\ UNCHANGED store
    /\ UNCHANGED << engineVars, configVars, dashboardVars >>

\* POST /api/predict up to its first await: the request of fetchLatestSensor.
PredictCall ==
    /\ \E body \in Requests :
          Starts([NoCall EXCEPT !.pc = "latest", !.request = body,
                                !.pending = Sent("get", << >>)])
    /\ UNCHANGED << store, serverTime >>
    /\ UNCHANGED << engineVars, configVars, dashboardVars >>

\* fetchLatestSensor has its answer: the 404 when there is no reading, the
\* request of fetchSensors(100) when there is one.
PredictLatest(c) ==
    /\ c.pc = "latest"
    /\ \E ok \in BOOLEAN :
          /\ ok => c.pending.served
          /\ \E clocks \in ClockReadings(IF ok THEN c.pending.data ELSE << >>, serverTime) :
                /\ serverTime' = LastReading(clocks, serverTime)
                /\ IF fetchLatestSensor(c.pending.data, ok, clocks) = Null
                   THEN Becomes(c, Responded(c, [NoResponse EXCEPT
                                                   !.route = "POST /api/predict",
                                                   !.status = 404]))
                   ELSE Becomes(c, [c EXCEPT
                                      !.pc = "history",
                                      !.latest = fetchLatestSensor(c.pending.data, ok, clocks),
                                      !.pending = Sent("get", << >>)])
    /\ UNCHANGED store
    /\ UNCHANGED << engineVars, configVars, dashboardVars >>

\* { ...latest, predicted_temp: predictedTemp, predicted_at: new Date().toISOString() }
updatedReading(latestReading, predictedTemp, predicted_at) ==
    Stored(latestReading.temperature, predictedTemp, latestReading.timestamp, predicted_at)

\* The handler of POST /api/predict from the answer of fetchSensors(100) to
\* the request of appendSensorData; method and horizon are not read again.
Forecasted(c, history, random, predicted_at) ==
    [c EXCEPT !.pc = "append",
              !.request = DefaultRequest,
              !.sensorHistory = history,
              !.pending = Sent("post",
                               << updatedReading(c.latest,
                                                 PredictedTemp(history, c.latest, c.request,
                                                               random),
                                                 predicted_at) >>)]

\* fetchSensors(100) has its answer: predictTemperature, the updated reading
\* and the request of appendSensorData.
PredictHistory(c) ==
    /\ c.pc = "history"
    /\ \E ok \in BOOLEAN, random \in BOOLEAN :
          /\ ok => c.pending.served
          /\ \E clocks \in ClockReadings(IF ok THEN c.pending.data ELSE << >>, serverTime) :
                \E predicted_at \in LastReading(clocks, serverTime)..LastInstant :
                    /\ Becomes(c, Forecasted(c, fetchSensors(c.pending.data, HistoryLimit,
                                                             ok, clocks),
                                             random, predicted_at))
                    /\ serverTime' = predicted_at
    /\ UNCHANGED store
    /\ UNCHANGED << engineVars, configVars, dashboardVars >>

\* appendSensorData has returned (ok) and the response is sent, or it has
\* thrown: the 500.
PredictRespond(c) ==
    /\ c.pc = "append"
    /\ \E ok \in BOOLEAN :
          /\ ok => c.pending.served
          /\ Becomes(c, Responded(c,
                IF ok
                THEN [NoResponse EXCEPT
                        !.route = "POST /api/predict",
                        !.status = 200,
                        !.predicted_temp = c.pending.data[1].predicted_temp,
                        !.timestamp = c.pending.data[1].timestamp]
                ELSE [NoResponse EXCEPT !.route = "POST /api/predict",
                                        !.status = 500]))
    /\ UNCHANGED << store, serverTime >>
    /\ UNCHANGED << engineVars, configVars, dashboardVars >>

\* The caller takes the response or the result.
Deliver(c) ==
    /\ c.pc = "responded"
    /\ calls' = calls (-) SetToBag({ c })
    /\ UNCHANGED << store, serverTime >>
    /\ UNCHANGED << engineVars, configVars, dashboardVars >>

ServerInit == EngineIdle /\ ServerIdle /\ ConfigIdle /\ DashboardIdle

ServerNext ==
    \/ Ingest
    \/ FetchSensorsCall
    \/ PredictCall
    \/ \E c \in InProgress : ServeSensors(c)
    \/ \E c \in InProgress : ApplyAppend(c)
    \/ \E c \in InProgress : FetchSensorsReturn(c)
    \/ \E c \in InProgress : PredictLatest(c)
    \/ \E c \in InProgress : PredictHistory(c)
    \/ \E c \in InProgress : PredictRespond(c)
    \/ \E c \in InProgress : Deliver(c)

ServerSpec == ServerInit /\ [][ServerNext]_vars

\* POST /api/predict alone, on a database the simulator fills with readings
\* that carry the time of their measurement: calls of the route, the
\* database and the simulator.
PredictNext ==
    \/ IngestTimed
    \/ PredictCall
    \/ \E c \in InProgress : ServeSensors(c)
    \/ \E c \in InProgress : ApplyAppend(c)
    \/ \E c \in InProgress : PredictLatest(c)
    \/ \E c \in InProgress : PredictHistory(c)
    \/ \E c \in InProgress : PredictRespond(c)
    \/ \E c \in InProgress : Deliver(c)

PredictSpec == ServerInit /\ [][PredictNext]_vars

(***************************************************************************)
(* PUT /api/config and GET /api/config (server.js), updateConfig and       *)
(* fetchConfig (firebase.js).  configWrites holds the thresholds written   *)
(* under /config, the last one being the stored configuration.             *)
(***************************************************************************)
MaxWrites == 3

\* Values of the thresholds field: missing, null, 0, 5, '', 'high', false,
\* true, the objects {temperature: 30} and {}, and the array [].  typeof
\* gives 'object' for null and for an array.
ThresholdValues ==
    { NoThresholds, Thresholds("object", FALSE, 0),
      Thresholds("number", FALSE, 0), Thresholds("number", TRUE, 5),
      Thresholds("string", FALSE, 0), Thresholds("string", TRUE, 1),
      Thresholds("boolean", FALSE, 0), Thresholds("boolean", TRUE, 1),
      Thresholds("object", TRUE, 1), Thresholds("object", TRUE, 2),
      Thresholds("object", TRUE, 3) }

\* {}
EmptyThresholds == Thresholds("object", TRUE, 2)

\* !thresholds || typeof thresholds !== 'object'
InvalidThresholds(thresholds) == ~thresholds.truthy \/ thresholds.kind # "object"

\* Mutant of PutConfig: the thresholds are written unchecked.
PutConfig_Unchecked ==
    /\ \E thresholds \in ThresholdValues :
          Starts([NoCall EXCEPT !.pc = "update", !.thresholds = thresholds,
                                !.pending = Sent("put", << thresholds >>)])
    /\ UNCHANGED << store, serverTime >>
    /\ UNCHANGED << engineVars, configVars, dashboardVars >>

\* PUT /api/config up to its await: the 400, or the request of updateConfig.
PutConfig ==
    /\ \E thresholds \in ThresholdValues :
          Starts(IF InvalidThresholds(thresholds)
                 THEN [NoCall EXCEPT !.pc = "responded", !.thresholds = thresholds,
                                     !.response = [NoResponse EXCEPT
                                                     !.route = "PUT /api/config",
                                                     !.status = 400]]
                 ELSE [NoCall EXCEPT !.pc = "update", !.thresholds = thresholds,
                                     !.pending = Sent("put", << thresholds >>)])
    /\ UNCHANGED << store, serverTime >>
    /\ UNCHANGED << engineVars, configVars, dashboardVars >>

\* The database applies PUT /config.json.
ApplyUpdate(c) ==
    /\ c.pending.kind = "put" /\ ~c.pending.served
    /\ Len(configWrites) < MaxWrites
    /\ configWrites' = Append(configWrites, c.pending.data[1])
    /\ Becomes(c, [c EXCEPT !.pending.served = TRUE])
    /\ UNCHANGED << store, serverTime >>
    /\ UNCHANGED << engineVars, dashboardVars >>

\* updateConfig has returned (ok) and the response is sent, or it has
\* thrown: the 500.
PutConfigRespond(c) ==
    /\ c.pc = "update"
    /\ \E ok \in BOOLEAN :
          /\ ok => c.pending.served
          /\ Becomes(c, Responded(c,
                IF ok
                THEN [NoResponse EXCEPT !.route = "PUT /api/config",
                                        !.status = 200,
                                        !.thresholds = c.thresholds]
                ELSE [NoResponse EXCEPT !.route = "PUT /api/config",
                                        !.status = 500]))
    /\ UNCHANGED << store, serverTime >>
    /\ UNCHANGED << engineVars, configVars, dashboardVars >>

\* GET /api/config up to its await: the request of fetchConfig.
GetConfig ==
    /\ Starts([NoCall EXCEPT !.pc = "config", !.pending = Sent("getConfig", << >>)])
    /\ UNCHANGED << store, serverTime >>
    /\ UNCHANGED << engineVars, configVars, dashboardVars >>

\* The database answers GET /config.json with the configuration it holds.
ServeConfig(c) ==
    /\ c.pending.kind = "getConfig" /\ ~c.pending.served
    /\ Becomes(c, [c EXCEPT !.pending = [kind |-> "getConfig", served |-> TRUE,
                                         data |-> SliceLast(configWrites, 1)]])
    /\ UNCHANGED << store, serverTime >>
    /\ UNCHANGED << engineVars, configVars, dashboardVars >>

\* response.data || { thresholds: {} }, and { thresholds: {} } when the
\* request fails.  data is empty when the database holds no configuration.
fetchConfig(data, ok) ==
    IF ok /\ data # << >> THEN data[1] ELSE EmptyThresholds

\* fetchConfig has returned and the response is sent.
GetConfigRespond(c) ==
    /\ c.pc = "config"
    /\ \E ok \in BOOLEAN :
          /\ ok => c.pending.served
          /\ Becomes(c, Responded(c, [NoResponse EXCEPT
                                        !.route = "GET /api/config",
                                        !.status = 200,
                                        !.thresholds = fetchConfig(c.pending.data, ok)]))
    /\ UNCHANGED << store, serverTime >>
    /\ UNCHANGED << engineVars, configVars, dashboardVars >>

ConfigInit == EngineIdle /\ ServerIdle /\ ConfigIdle /\ DashboardIdle

ConfigNext ==
    \/ PutConfig
    \/ GetConfig
    \/ \E c \in InProgress : ApplyUpdate(c)
    \/ \E c \in InProgress : PutConfigRespond(c)
    \/ \E c \in InProgress : ServeConfig(c)
    \/ \E c \in InProgress : GetConfigRespond(c)
    \/ \E c \in InProgress : Deliver(c)

ConfigSpec == ConfigInit /\ [][ConfigNext]_vars

(***************************************************************************)
MaxClock == 8
MaxLatest == 2

\* .slice(-3)
MaxAlerts == 3

\* 5000 ms and 8000 ms
QuietAgeSeconds == 5
DismissAgeSeconds == 8

\* The interval of the auto-dismiss timer, 2000 ms.
TickSeconds == 2

Messages == { "Temperature high", "Humidity low", "Motion detected" }

\* Values of latest.alerts: up to MaxLatest alerts, the same message more
\* than once among them.
LatestAlerts == SeqsUpTo(Messages, MaxLatest) \ { << >> }

\* prev.filter(a => (now - a.timestamp) < age)
RECURSIVE YoungerThan(_, _, _)
YoungerThan(prev, now, age) ==
    IF prev = << >> THEN << >>
    ELSE IF now - Head(prev).timestamp < age
         THEN << Head(prev) >> \o YoungerThan(Tail(prev), now, age)
         ELSE YoungerThan(Tail(prev), now, age)

\* prev.filter(a => a.id !== alertId)
RECURSIVE WithoutId(_, _)
WithoutId(prev, alertId) ==
    IF prev = << >> THEN << >>
    ELSE IF Head(prev).id # alertId
         THEN << Head(prev) >> \o WithoutId(Tail(prev), alertId)
         ELSE WithoutId(Tail(prev), alertId)

\* The i-th smallest id that no alert of prev has.
RECURSIVE FreshId(_, _, _)
FreshId(prev, i, candidate) ==
    IF \E k \in 1..Len(prev) : prev[k].id = candidate
    THEN FreshId(prev, i, candidate + 1)
    ELSE IF i = 1 THEN candidate ELSE FreshId(prev, i - 1, candidate + 1)

\* latest.alerts.map(alert => ({ id, ...alert, timestamp: Date.now() }))
newAlerts(prev, latestAlerts, now) ==
    [i \in 1..Len(latestAlerts) |->
        [id |-> FreshId(prev, i, 1), message |-> latestAlerts[i], timestamp |-> now]]

\* newAlerts.filter(a => !existing.has(a.message))
RECURSIVE Unique(_, _)
Unique(new, prev) ==
    IF new = << >> THEN << >>
    ELSE IF \E k \in 1..Len(prev) : prev[k].message = Head(new).message
         THEN Unique(Tail(new), prev)
         ELSE << Head(new) >> \o Unique(Tail(new), prev)

\* Mutant of PollWithAlerts: the alerts of the reading are added unfiltered.
PollWithAlerts_Unfiltered ==
    /\ \E latestAlerts \in LatestAlerts :
          alerts' = SliceLast(alerts \o newAlerts(alerts, latestAlerts, clock), MaxAlerts)
    /\ UNCHANGED clock
    /\ UNCHANGED << engineVars, serverVars, configVars >>

\* fetchData when the latest reading carries alerts.
PollWithAlerts ==
    /\ \E latestAlerts \in LatestAlerts :
          alerts' = SliceLast(alerts \o Unique(newAlerts(alerts, latestAlerts, clock), alerts),
                              MaxAlerts)
    /\ UNCHANGED clock
    /\ UNCHANGED << engineVars, serverVars, configVars >>

\* fetchData when the latest reading carries no alert, or there is no
\* reading.
PollWithoutAlerts ==
    /\ alerts' = YoungerThan(alerts, clock, QuietAgeSeconds)
    /\ UNCHANGED clock
    /\ UNCHANGED << engineVars, serverVars, configVars >>

\* dismissAlert(alertId), for the id of a displayed alert.
DismissAlert ==
    /\ \E i \in 1..Len(alerts) : alerts' = WithoutId(alerts, alerts[i].id)
    /\ UNCHANGED clock
    /\ UNCHANGED << engineVars, serverVars, configVars >>

\* The interval of the auto-dismiss timer comes due, 2 s after the time
\* before: its callback removes the alerts that are 8 s old or older.
Tick ==
    /\ clock < MaxClock
    /\ clock' = clock + TickSeconds
    /\ alerts' = YoungerThan(alerts, clock', DismissAgeSeconds)
    /\ UNCHANGED << engineVars, serverVars, configVars >>

DashboardInit == EngineIdle /\ ServerIdle /\ ConfigIdle /\ DashboardIdle

DashboardNext == PollWithAlerts \/ PollWithoutAlerts \/ DismissAlert \/ Tick

DashboardSpec == DashboardInit /\ [][DashboardNext]_vars

\* C21 (as claimed): every value predictTemperature returns and every
\* predicted_temp computePredictionsForHistory computes is a whole number of
\* hundredths, on every return path.
C21_RoundedTo2Decimals ==
    /\ (op \in { "predict", "predictNoReading" } /\ predicted.type = "number") =>
          predicted.rem = 0
    /\ op = "annotate" =>
          \A i \in 1..Len(points) :
              (points[i].predicted_temp \in { Null, Undefined }
                  /\ annotated[i].predicted_temp \notin { Null, Undefined }) =>
                  annotated[i].predicted_temp.rem = 0

\* The step count the claim gives for a horizon, in integer arithmetic: the
\* horizon in thousandths of a hundredth of a minute, times 12, rounded to
\* the nearest whole step (halves up).
C22_Steps(h) == ((h.v * 1000 + h.rem) * 12 + 50000) \div 100000

\* What predictTemperature returns for a usable reading after a history
\* with a valid temperature when the forecaster is handed n steps.
C22_PredictWith(n, i, r) ==
    LET tempHistory == Append(Sanitize(Temperatures(SubSeq(points, 1, i - 1))),
                              points[i].temperature)
    IN  Round2(Nudged(Forecast(selector, tempHistory, FromInt(n)),
                      points[i].temperature, tempHistory, r))

\* What computePredictionsForHistory writes at position i when the
\* forecaster is handed n steps.
C22_AnnotateWith(n, i, r) ==
    LET historyUpToPoint == SliceFirst(Sanitize(Temperatures(points)), i)
    IN  Round2(Nudged(Forecast(selector, historyUpToPoint, FromInt(n)),
                      points[i].temperature, historyUpToPoint, r))

C22_Forecasts(i) ==
    /\ Truthy(points[i].temperature)
    /\ Len(Sanitize(Temperatures(SubSeq(points, 1, i - 1)))) > 0

\* C22: both functions hand the forecaster round(horizonMinutes * 12) steps:
\* the result of predictTemperature and every predicted_temp written by
\* computePredictionsForHistory are the results for that step count, the
\* same count in both for the same horizon, and 90 for the default 7.5 min.
C22_HorizonSteps ==
    /\ HorizonSteps(horizon) = FromInt(C22_Steps(horizon))
    /\ horizon = Num(750) => HorizonSteps(horizon) = FromInt(90)
    /\ (op = "predict" /\ C22_Forecasts(at)) =>
          \E r \in BOOLEAN :
              predicted = C22_PredictWith(C22_Steps(horizon), at, r)
    /\ op = "annotate" =>
          \A i \in 1..Len(points) :
              (points[i].predicted_temp \in { Null, Undefined }
                  /\ annotated[i].predicted_temp \notin { Null, Undefined }) =>
                  \E r \in BOOLEAN :
                      annotated[i].predicted_temp =
                          C22_AnnotateWith(C22_Steps(horizon), i, r)

\* A call for 0.125 min (1.5 steps, rounded to 2) whose result is not the
\* result for 1 step.
C22_Witness ==
    /\ op = "predict" /\ horizon = Fine(12, 500) /\ C22_Forecasts(at)
    /\ C22_Steps(horizon) = 2
    /\ \A r \in BOOLEAN : predicted # C22_PredictWith(1, at, r)

\* The result of predictTemperature at position i when the forecast comes
\* from exponential smoothing, and when it comes from the moving average.
C23_ViaExponential(i, r) ==
    LET tempHistory == Append(Sanitize(Temperatures(SubSeq(points, 1, i - 1))),
                              points[i].temperature)
    IN  Round2(Nudged(predictWithExponentialSmoothing(tempHistory, HorizonSteps(horizon)),
                      points[i].temperature, tempHistory, r))

C23_ViaMovingAverage(i, r) ==
    LET tempHistory == Append(Sanitize(Temperatures(SubSeq(points, 1, i - 1))),
                              points[i].temperature)
    IN  Round2(Nudged(predictWithMovingAverage(tempHistory, HorizonSteps(horizon)),
                      points[i].temperature, tempHistory, r))

C23_AnnotatedVia(exponential, i, r) ==
    LET historyUpToPoint == SliceFirst(Sanitize(Temperatures(points)), i)
        predicted_ == IF exponential
                      THEN predictWithExponentialSmoothing(historyUpToPoint, HorizonSteps(horizon))
                      ELSE predictWithMovingAverage(historyUpToPoint, HorizonSteps(horizon))
    IN  Round2(Nudged(predicted_, points[i].temperature, historyUpToPoint, r))

\* C23: the selector 'exponential' runs predictWithExponentialSmoothing;
\* 'moving_average' and every other selector ('moving_avg' among them) run
\* predictWithMovingAverage, and the call returns a number as for
\* 'moving_average'.
C23_Selector ==
    /\ (op = "predict" /\ C22_Forecasts(at)) =>
          \E r \in BOOLEAN :
              predicted = IF selector = "exponential"
                          THEN C23_ViaExponential(at, r)
                          ELSE C23_ViaMovingAverage(at, r)
    /\ op = "annotate" =>
          \A i \in 1..Len(points) :
              (points[i].predicted_temp \in { Null, Undefined }
                  /\ annotated[i].predicted_temp \notin { Null, Undefined }) =>
                  \E r \in BOOLEAN :
                      annotated[i].predicted_temp =
                          C23_AnnotatedVia(selector = "exponential", i, r)

\* A call with the selector 'moving_avg' whose result is not the result of
\* exponential smoothing.
C23_Witness ==
    /\ op = "predict" /\ selector = "moving_avg" /\ C22_Forecasts(at)
    /\ predicted.type = "number"
    /\ \A r \in BOOLEAN : predicted # C23_ViaExponential(at, r)

\* The positions of data whose temperature, once normalized, is above 0.
C24_Valid(data) ==
    { i \in 1..Len(data) : GreaterThanZero(NumberOrZero(data[i].temperature)) }

\* sensors is what the claim says of fetchSensors(limit) on data, an item
\* without timestamp having the instant clocks gives it.
C24_Result(data, failed, limit, sensors, clocks) ==
    IF failed \/ data = << >>
    THEN sensors = << >>
    ELSE /\ Len(sensors) <= limit
         /\ Len(sensors) = IF Cardinality(C24_Valid(data)) < limit
                           THEN Cardinality(C24_Valid(data)) ELSE limit
         /\ \A i \in 1..Len(sensors) : GreaterThanZero(sensors[i].temperature)
         /\ \A i, j \in 1..Len(sensors) :
                i < j => sensors[i].timestamp <= sensors[j].timestamp
         /\ \E from \in [1..Len(sensors) -> C24_Valid(data)] :
                /\ \A i, j \in 1..Len(sensors) : i # j => from[i] # from[j]
                /\ \A i \in 1..Len(sensors) :
                       sensors[i] = normalize(data[from[i]], clocks[from[i]])
                /\ \A k \in C24_Valid(data) :
                       (\A i \in 1..Len(sensors) : from[i] # k) =>
                           \A i \in 1..Len(sensors) :
                               normalize(data[k], clocks[k]).timestamp
                                   <= sensors[i].timestamp

\* The call c of fetchSensors returns on this step, as d.
C24_Returns(c, d) == c.pc = "sensors" /\ d.pc = "responded" /\ Becomes(c, d)

C24_Step ==
    \A c \in InProgress, d \in BagToSet(calls') :
        C24_Returns(c, d) =>
            /\ d.response.route = "fetchSensors"
            /\ d.limit = c.limit
            /\ ~d.response.failed => c.pending.served
            /\ \E clocks \in ClockReadings(c.pending.data, serverTime) :
                   /\ LastReading(clocks, serverTime) <= serverTime'
                   /\ C24_Result(c.pending.data, d.response.failed, c.limit,
                                 d.response.sensors, clocks)

\* C24: fetchSensors(limit) returns at most limit readings, each a reading
\* of the answer of the database with temperature > 0, none twice; a reading
\* without timestamp has that of the instant the call reads it at.  They are
\* ordered oldest first and no valid reading left out is newer than one
\* returned; none is left out while there is room.  With no data or a failed
\* request the result is the empty list.
C24_FetchSensors == [][C24_Step]_vars

\* fetchSensors(1) over 20.5 and 20.0, both without timestamp and read at
\* 3 and at 4: 20.5 is the older of the two and 20.0 comes back, with the
\* instant it was read at.
C24_Witness ==
    \E c \in InProgress :
        /\ c.response.route = "fetchSensors" /\ ~c.response.failed
        /\ c.limit = 1
        /\ store = << Stored(Num(2050), Undefined, 0, 0),
                      Stored(Num(2000), Undefined, 0, 0) >>
        /\ Len(c.response.sensors) = 1
        /\ c.response.sensors[1].temperature = Num(2000)
        /\ c.response.sensors[1].timestamp = LastInstant

\* The call c sends its response on this step, as d.
C26_Responds(c, d) == c.pc # "responded" /\ d.pc = "responded" /\ Becomes(c, d)

\* The database applies the write of the call c on this step.
C26_Applies(c, d) ==
    /\ c.pc = "append" /\ ~c.pending.served
    /\ d = [c EXCEPT !.pending.served = TRUE]
    /\ Becomes(c, d)

C26_Step ==
    /\ store' # store =>
          /\ Len(store') = Len(store) + 1
          /\ SubSeq(store', 1, Len(store)) = store
    /\ (store' # store /\ store'[Len(store')].predicted_at # 0) =>
          \E c \in InProgress, d \in BagToSet(calls') :
              C26_Applies(c, d) /\ store'[Len(store')] = c.pending.data[1]
    /\ \A c \in InProgress :
          (c.pc = "append" /\ c.pending.served) =>
              /\ c.pending.data[1].temperature = c.latest.temperature
              /\ c.pending.data[1].timestamp = c.latest.timestamp
              /\ c.pending.data[1].predicted_at # 0
              /\ \E i \in 1..Len(store) : store[i] = c.pending.data[1]
    /\ \A c \in InProgress, d \in BagToSet(calls') :
          /\ (c.pc = "latest" /\ d.pc # "latest" /\ Becomes(c, d)
                 /\ (~c.pending.served \/ C24_Valid(c.pending.data) = { })) =>
                /\ d.pc = "responded" /\ d.response.status = 404
                /\ store' = store
          /\ (C26_Responds(c, d) /\ d.response.status = 404) => c.pc = "latest"
          /\ C26_Applies(c, d) => store' = Append(store, c.pending.data[1])
          /\ (c.pc = "append" /\ c.pending.served /\ d # c /\ Becomes(c, d)) =>
                d.pc = "responded"
          /\ (C26_Responds(c, d) /\ d.response.route = "POST /api/predict"
                 /\ d.response.status = 200) =>
                /\ c.pc = "append" /\ c.pending.served
                /\ d.response.predicted_temp = c.pending.data[1].predicted_temp
                /\ d.response.timestamp = c.latest.timestamp
                /\ store' = store

\* C26: POST /api/predict answers 404 and appends nothing when the store
\* has no reading; a call that succeeds has appended exactly one record, the
\* latest reading with predicted_temp and predicted_at, and no step modifies
\* or removes a stored record, so that the store has grown by one record for
\* every successful call.
C26_PredictAppends == [][C26_Step]_vars

\* A second successful call after one stored reading: three records, the
\* reading and the forecasts of the two calls.
C26_Witness ==
    \E c \in InProgress :
        /\ c.response.route = "POST /api/predict" /\ c.response.status = 200
        /\ Len(store) = 3
        /\ store[1].predicted_at = 0
        /\ store[3].predicted_at # 0 /\ store[2].predicted_at # 0
        /\ store[3].predicted_temp = c.response.predicted_temp

\* The history read by the call c ends with its latest reading.
C27_EndsWithLatest(c) ==
    /\ Len(c.sensorHistory) > 0
    /\ c.sensorHistory[Len(c.sensorHistory)] = c.latest

\* The history read by the call c ends with a reading of the latest
\* temperature.
C27_EndsWithLatestTemperature(c) ==
    /\ Len(c.sensorHistory) > 0
    /\ c.sensorHistory[Len(c.sensorHistory)].temperature = c.latest.temperature

\* The working series of predictTemperature in the call c.
C27_Series(c) ==
    Append(Sanitize(Temperatures(c.sensorHistory)), c.latest.temperature)

\* For each working series and body, whether the model forecast is within
\* 0.2 of the last temperature of the series.
C27_Differences ==
    { << s, DiffBelowMin(Forecast(s[2].method, s[1],
                                  HorizonSteps(ParseFloat(s[2].horizon))),
                         s[1][Len(s[1])]) >> :
        s \in (SeqsUpTo(ValidTemps, MaxStore + 1) \ { << >> }) \X Requests }

\* The working series and bodies for which it is.
C27_Triggering == { p[1] : p \in { q \in C27_Differences : q[2] } }

\* The model forecast of the call c, of the request body, is within 0.2 of
\* the latest temperature.
C27_NudgeTriggered(c, body) == << C27_Series(c), body >> \in C27_Triggering

\* v hundredths, kept in [15.0, 35.0].
C27_Clamped(v) == Num(IF v < 1500 THEN 1500 ELSE IF v > 3500 THEN 3500 ELSE v)

\* What the call c predicts for the request body when the draw is above 0.5
\* (up) and below it.
C27_Predicted(c, body, up) == PredictedTemp(c.sensorHistory, c.latest, body, up)

\* Every record of the answer data that has a valid temperature was stored
\* with a timestamp, and none of them is newer than the reading read as
\* latest.
C27_NoneNewer(data, latestReading) ==
    \A i \in 1..Len(data) :
        GreaterThanZero(NumberOrZero(data[i].temperature)) =>
            /\ data[i].timestamp # 0
            /\ data[i].timestamp <= latestReading.timestamp

\* C27 (as claimed): in POST /api/predict the history handed to
\* predictTemperature always ends with the latest reading itself.
C27_AlwaysEndsWithLatest ==
    \A c \in InProgress : c.pc = "append" => C27_EndsWithLatest(c)

\* The call c has the answer of fetchSensors(100) on this step and goes on,
\* as d, to appendSensorData.
C27_Forecasts(c, d) == c.pc = "history" /\ d.pc = "append" /\ Becomes(c, d)

\* What the claim says of a working series that ends with the latest
\* temperature: it ends with it twice, its last delta is zero, and the
\* forecast is one of the two the draw decides between, 0.2 above and 0.2
\* below the latest temperature when the nudge is triggered.
C27_DrawDecides(workingSeries, body, temperature, forecastValue, up, down) ==
    /\ Len(workingSeries) >= 2
    /\ workingSeries[Len(workingSeries)] = temperature
    /\ workingSeries[Len(workingSeries) - 1] = temperature
    /\ IsZero(LastDelta(workingSeries))
    /\ forecastValue \in { up, down }
    /\ << workingSeries, body >> \in C27_Triggering =>
          /\ up = C27_Clamped(temperature.v + 20)
          /\ down = C27_Clamped(temperature.v - 20)
          /\ up # down

\* A working series that ends with two different temperatures: a nudge that
\* is triggered goes 0.2 up when the latest temperature is the higher one
\* and 0.2 down when it is the lower one, whatever the draw.
C27_TrendDecides(workingSeries, body, temperature, forecastValue, up, down) ==
    /\ Len(workingSeries) >= 2
    /\ workingSeries[Len(workingSeries)] = temperature
    /\ forecastValue \in { up, down }
    /\ << workingSeries, body >> \in C27_Triggering =>
          /\ up = down
          /\ up = C27_Clamped(IF temperature.v > workingSeries[Len(workingSeries) - 1].v
                              THEN temperature.v + 20 ELSE temperature.v - 20)

C27_Step ==
    \A c \in InProgress, d \in BagToSet(calls') :
        C27_Forecasts(c, d) =>
            /\ d.latest = c.latest
            /\ ~c.pending.served => d.sensorHistory = << >>
            /\ d.sensorHistory = << >> =>
                  d.pending.data[1].predicted_temp = c.latest.temperature
            /\ (d.sensorHistory # << >> /\ C27_NoneNewer(c.pending.data, c.latest)) =>
                  C27_EndsWithLatest(d)
            /\ C27_EndsWithLatestTemperature(d) =>
                  C27_DrawDecides(C27_Series(d), c.request, c.latest.temperature,
                                  d.pending.data[1].predicted_temp,
                                  C27_Predicted(d, c.request, TRUE),
                                  C27_Predicted(d, c.request, FALSE))
            /\ (d.sensorHistory # << >> /\ ~C27_EndsWithLatestTemperature(d)) =>
                  C27_TrendDecides(C27_Series(d), c.request, c.latest.temperature,
                                   d.pending.data[1].predicted_temp,
                                   C27_Predicted(d, c.request, TRUE),
                                   C27_Predicted(d, c.request, FALSE))

\* C27 (amended): in POST /api/predict, when the read of the history fails the
\* history is empty and the latest temperature is returned as it is.  When
\* it succeeds and every record with a valid temperature in the answer of
\* the database was stored with a timestamp, none newer than the latest
\* reading, the history ends with the latest reading itself.  Whenever the
\* history ends with a reading of the latest temperature the working series
\* ends with that temperature twice, its last delta is zero, and a nudge
\* that is triggered goes up or down with the draw; when it ends with a
\* reading of another temperature, a nudge that is triggered goes up if the
\* latest temperature is the higher of the two and down if it is the lower.
C27_LatestTwice == [][C27_Step]_vars

\* Two readings stored with their timestamps, 20.0 at 1 and 20.5 at 2: the
\* history is the two of them and ends with the latest reading, the moving
\* average of [20.0, 20.5, 20.5] is within 0.2 of 20.5 though the readings
\* rise, and the nudge has gone down, to 20.3.
C27_Witness ==
    \E c \in InProgress :
        /\ c.pc = "append" /\ C27_EndsWithLatest(c)
        /\ Len(c.sensorHistory) = 2
        /\ c.sensorHistory[1] = normalize(Stored(Num(2000), Undefined, 1, 0), 0)
        /\ c.latest = normalize(Stored(Num(2050), Undefined, 2, 0), 0)
        /\ \E body \in Requests :
              /\ body.method = "moving_average"
              /\ C27_NudgeTriggered(c, body)
              /\ C27_Predicted(c, body, TRUE) = Num(2070)
              /\ C27_Predicted(c, body, FALSE) = Num(2030)
        /\ c.pending.data[1].predicted_temp = Num(2030)

\* The thresholds field is a non-null object (an array is one).
C25_ObjectValued(t) == t.kind = "object" /\ t.truthy

C25_Step ==
    /\ \A d \in BagToSet(calls') :
          (calls' = calls (+) SetToBag({ d }) /\ d.pc \in { "update", "responded" }
              /\ ~C25_ObjectValued(d.thresholds)) =>
              /\ d.pc = "responded"
              /\ d.response.route = "PUT /api/config"
              /\ d.response.status = 400
              /\ d.pending = NoRequest
              /\ configWrites' = configWrites
    /\ \A c \in InProgress, d \in BagToSet(calls') :
          /\ (c.pc = "update" /\ d.pc = "responded" /\ Becomes(c, d)
                 /\ d.response.status = 200) =>
                /\ c.pending.kind = "put" /\ c.pending.served
                /\ d.response.thresholds = c.thresholds
                /\ C25_ObjectValued(c.thresholds)
                /\ \E i \in 1..Len(configWrites) : configWrites[i] = c.thresholds
                /\ configWrites' = configWrites
          /\ (Becomes(c, d) /\ c # d /\ d.response.route = "PUT /api/config"
                 /\ d.response.status = 200) => c.pc = "update"
    /\ \A d \in BagToSet(calls') :
          (calls' = calls (+) SetToBag({ d }) /\ d.response.route = "PUT /api/config") =>
              d.response.status = 400
    /\ configWrites' # configWrites =>
          \E c \in InProgress :
              /\ c.pc = "update" /\ ~c.pending.served
              /\ Becomes(c, [c EXCEPT !.pending.served = TRUE])
              /\ C25_ObjectValued(c.thresholds)
              /\ configWrites' = Append(configWrites, c.thresholds)

\* C25: PUT /api/config with thresholds missing or not an object answers
\* 400 and sends no write; a write happens only for the object-valued
\* thresholds of a request, and the response is a success only after that
\* write, with the thresholds of the request.
C25_ConfigValidated == [][C25_Step]_vars

\* A request with thresholds 0 answered 400 after one accepted write.
C25_Witness ==
    \E c \in InProgress :
        /\ c.response.route = "PUT /api/config" /\ c.response.status = 400
        /\ c.thresholds = Thresholds("number", FALSE, 0)
        /\ Len(configWrites) = 1 /\ C25_ObjectValued(configWrites[1])

\* The first pass left no point without a forecast, or returned its input.
C28_Settled ==
    \/ \A i \in 1..Len(annotated) :
           annotated[i].predicted_temp \notin { Null, Undefined }
    \/ annotated = points

\* C28: idempotence.  When the first pass gave every point a forecast or
\* returned its input unchanged, computePredictionsForHistory applied to
\* its own output returns that output, whatever the draws would be.
C28_Idempotent ==
    (op = "annotate" /\ C28_Settled) =>
        \A r \in BOOLEAN :
            computePredictionsForHistory(annotated, selector, horizon,
                                         [i \in 1..Len(annotated) |-> r]) = annotated

\* A first pass that computed a forecast for a point that had none and left
\* no point without one.
C28_Witness ==
    /\ op = "annotate" /\ Len(points) >= 2 /\ annotated # points
    /\ \E i \in 1..Len(points) : points[i].predicted_temp = Undefined
    /\ \A i \in 1..Len(annotated) :
           annotated[i].predicted_temp \notin { Null, Undefined }

\* The series is an arithmetic progression; its difference is the second
\* value minus the first.
C29_IsProgression(s) ==
    \A k \in 1..Len(s) : s[k].v = s[1].v + (k - 1) * (s[2].v - s[1].v)

\* x hundredths, kept in [15.0, 35.0], as a number.
C29_Clamped(x) == Dec(IF x < 1500 THEN 1500 ELSE IF x > 3500 THEN 3500 ELSE x, 100)

\* The linear extrapolation of the series: the last point plus the
\* difference times the step count, kept in [15.0, 35.0].
C29_Extrapolation ==
    C29_Clamped(series[Len(series)].v + (series[2].v - series[1].v) * steps)

\* 0.000000001
C29_Tolerance == FDivInt(Dec(1, 100000), 10000)

\* C29 (as claimed): for an arithmetic progression of 3 to 20 positive
\* points with difference d, predictWithExponentialSmoothing returns exactly
\* the last point plus d times the step count, kept in [15.0, 35.0]; for a
\* constant series that is the constant, kept in [15.0, 35.0].
C29_LinearExtrapolation ==
    (op = "exponential" /\ Len(series) >= 3 /\ Len(series) <= 20
        /\ C29_IsProgression(series)) =>
        forecast = C29_Extrapolation

\* The points of the series are at most 100.0 and the step count is at most
\* 100.
C29_Compared ==
    /\ steps <= MaxStepCount
    /\ \A k \in 1..Len(series) : series[k].v <= 100 * MaxLinearTemp

\* C29 (amended): for an arithmetic progression of 3 to 20 positive points of
\* at most 100.0 with difference d and a step count of at most 100,
\* predictWithExponentialSmoothing returns the last point plus d times the
\* step count, kept in [15.0, 35.0], up to the rounding of the floating-point
\* operations of the recurrence: the result is in [15.0, 35.0] and less than
\* 0.000000001 away from that value.  Beyond 100 steps the rounding error of
\* the trend, multiplied by the step count, exceeds that distance.
C29_NearLinearExtrapolation ==
    (op = "exponential" /\ Len(series) >= 3 /\ Len(series) <= 20
        /\ C29_IsProgression(series) /\ C29_Compared) =>
        /\ InRange(forecast)
        /\ FLess(FAbs(FSub(forecast, C29_Extrapolation)), C29_Tolerance)

\* A rising progression of 3 points, 20.0, 20.1, 20.2, forecast 12 steps
\* ahead: the recurrence gives 21.40000000000001, not 20.2 + 0.1 * 12 = 21.4.
C29_Witness ==
    /\ op = "exponential" /\ steps = 12
    /\ series = << Num(2000), Num(2010), Num(2020) >>
    /\ forecast # Dec(2140, 100)
    /\ FLess(FAbs(FSub(forecast, Dec(2140, 100))), C29_Tolerance)

\* The alerts of the list after the step that the list before it has not.
C30_Added == { alerts'[i] : i \in 1..Len(alerts') } \ { alerts[i] : i \in 1..Len(alerts) }

C30_Step ==
    /\ Len(alerts) <= 3 /\ Len(alerts') <= 3
    /\ \A a \in C30_Added :
           \A i \in 1..Len(alerts) : alerts[i].message # a.message

\* C30: after any sequence of polls, auto-dismiss ticks and manual
\* dismissals the alert list holds at most 3 alerts, and no step adds an
\* alert whose message is the message of an alert displayed before it.
C30_AlertList == [][C30_Step]_vars

\* Three alerts with three messages, the last added by a later poll than the
\* first.
C30_Witness ==
    /\ Len(alerts) = 3
    /\ alerts[1].timestamp < alerts[3].timestamp
    /\ alerts[1].message # alerts[2].message
    /\ alerts[1].message # alerts[3].message
    /\ alerts[2].message # alerts[3].message

====
